---- MODULE Spec2Model ----
(***************************************************************************)
(* The tracking control plane of scriptcompiler-bridge:                    *)
(*   - TrackerBridge (src/bridge/tracker_bridge.py): the asyncio object    *)
(*     that owns one tracker.py subprocess, the pending-call table and the *)
(*     stdout reader task;                                                 *)
(*   - the worker's main loop (src/tracker.py, main).                      *)
(* Every coroutine is cut at its awaits that can suspend: one action is    *)
(* the code that runs between two suspensions of one task.  The operators  *)
(* that model code segments take the whole state as a record s and return  *)
(* the state after the segment, so that a segment that calls another       *)
(* (initialize -> cleanup, initialize -> send_command) is one step.        *)
(***************************************************************************)
EXTENDS Integers, Sequences, FiniteSets, TLC

\* ---- bounds of the model ------------------------------------------------
MaxTasks == 3      \* caller coroutines (each runs one bridge call)
MaxProcs == 2      \* subprocesses that can be spawned in one behaviour
StdinCap == 1      \* unread request lines the stdin pipe takes before drain() suspends
MaxLoad == 4       \* calls started plus subprocesses spawned in one behaviour
MaxLines == 3      \* input lines given to a stand-alone worker
MaxFrames == 10    \* frames processed, and frames failed in a row, in one session
MaxCorners == 3    \* corners goodFeaturesToTrack finds in a region
MaxRun == 31       \* frames processed in one long session
MaxShort == 2      \* frames processed in each of a series of short sessions
MaxFlowPoints == 4   \* flow points whose every optical-flow report is enumerated
MaxFlowFrames == 2   \* frames of a session in which the flow points move apart

Tasks == 1..MaxTasks
Procs == 1..MaxProcs

\* ---- program constants ---------------------------------------------------
TRACKING_COMMAND_TIMEOUT == 5
SCENE_DETECT_TIMEOUT == 120
StartupTimeout == 10
PingTimeout == 5
\* Python's None for a request id / an absent _requestId field.
NoRid == -2
\* The request id of the cleanup line.
CleanupRid == -1
\* The key "__startup__" of the pending table.
StartupKey == -3

\* ---- messages -------------------------------------------------------------
\* One JSON line on the worker's stdout (rid = NoRid: no _requestId field).
Msg(c, r, ok, pong) == [command |-> c, rid |-> r, success |-> ok, pong |-> pong]
NoMsg == Msg("none", NoRid, FALSE, FALSE)
\* Lines on the worker's stdout that are no message of the protocol, named in
\* the command field: text that is not JSON, JSON that is no object, bytes
\* that are not UTF-8.
TextLine == Msg("<text>", NoRid, FALSE, FALSE)
NonObjectLine == Msg("<nonobject>", NoRid, FALSE, FALSE)
UndecodableLine == Msg("<undecodable>", NoRid, FALSE, FALSE)
NoiseLines == {TextLine, NonObjectLine, UndecodableLine}
\* One line on the worker's stdin: a JSON object ("obj"), text that is not
\* JSON ("garbage"), JSON that is no object ("nonobj") or whitespace ("blank").
Line(k, c, r) == [kind |-> k, command |-> c, rid |-> r]
CleanupLine == Line("obj", "cleanup", CleanupRid)

\* The commands callers pass to send_command.
SendCmds == {"process_frame", "detect_scenes"}

\* ---- futures and results ----------------------------------------------------
Fut(st, val, err) == [st |-> st, val |-> val, err |-> err]
NoFuture == Fut("none", NoMsg, "")
PendingFuture == Fut("pending", NoMsg, "")

Outcome(kind, tag, c, secs, m) == [kind |-> kind, tag |-> tag, cmd |-> c, secs |-> secs, msg |-> m]
NoOutcome == Outcome("none", "", "", 0, NoMsg)
Return(tag) == Outcome("return", tag, "", 0, NoMsg)
ReturnMsg(m) == Outcome("return", "reply", "", 0, m)
Raise(tag) == Outcome("raise", tag, "", 0, NoMsg)
RaiseTimeout(c, secs) == Outcome("raise", "Tracker command timeout", c, secs, NoMsg)

\* ---- finite maps ---------------------------------------------------------------
EmptyMap == [x \in {} |-> 0]
Pop(f, k) == [x \in DOMAIN f \ {k} |-> f[x]]
Put(f, k, v) == [x \in DOMAIN f \cup {k} |-> IF x = k THEN v ELSE f[x]]

\* ---- the tracking engine's data ---------------------------------------------
\* Coordinates are kept in tenths of a pixel, so that the 0.7/0.3 weighting of
\* two whole-pixel centers is exact; frame sizes are in pixels.
Pt(x, y) == [x |-> 10 * x, y |-> 10 * y]
\* Python's None for a center.
NoPoint == [x |-> -1, y |-> -1]
\* A decoded frame is its shape; NoFrame is None.
Frame(w, h) == [w |-> w, h |-> h]
NoFrame == Frame(0, 0)
\* self.csrt_tracker: None, created and not initialized (init raised), or
\* initialized around a center.
NoTracker == [st |-> "none", at |-> NoPoint]
Uninit == [st |-> "uninit", at |-> NoPoint]
Csrt(c) == [st |-> "ready", at |-> c]

\* NativeTracker.__init__, lines 50-51 and 39.
max_points == 15
min_points == 3
DefaultTemplateSize == 40

\* Confidences in thousandths: lines 256, 266, 288 and 302.
ConfCsrt == 900
ConfFused == 950
ConfLk == 600
ConfFloor == 100
ConfBase == 500
ConfStep == 50

\* The result of a handler: what it returns, or the exception that leaves it
\* (main answers that with success False, lines 401-410).
Result(ok, err, method, conf, c, n) ==
    [kind |-> "return", success |-> ok, error |-> err, method |-> method,
     confidence |-> conf, point |-> c, pointCount |-> n]
Raised(err) ==
    [kind |-> "raise", success |-> FALSE, error |-> err, method |-> "",
     confidence |-> 0, point |-> NoPoint, pointCount |-> 0]
NoResult ==
    [kind |-> "none", success |-> FALSE, error |-> "", method |-> "",
     confidence |-> 0, point |-> NoPoint, pointCount |-> 0]

\* ---- the tracking engine: NativeTracker as state transformers ------------
\* NativeTracker.__init__, lines 34-64 (tracking_points None is <<>>; the
\* indices of good_points_indices count from 1 and are kept as a set: the
\* code's list is always in increasing order).
NewTracker ==
    [is_tracking |-> FALSE, frame_count |-> 0, frame_width |-> 0, frame_height |-> 0,
     template_size |-> DefaultTemplateSize, csrt_tracker |-> NoTracker,
     prev_gray |-> NoFrame, tracking_points |-> <<>>, good_points_indices |-> {},
     last_valid_center |-> NoPoint, out_of_bounds_count |-> 0]

Max(a, b) == IF a >= b THEN a ELSE b
Min(a, b) == IF a <= b THEN a ELSE b

\* _get_roi_size, lines 66-68.
get_roi_size(s) == Max(40, s.template_size)

\* _make_roi_bbox, lines 75-82 (and lines 99-103): in pixels; int() of a
\* value that is not negative is the floor.
make_roi_bbox(s, c, frame) ==
    LET roi_size == get_roi_size(s)
        rx == Max(0, c.x - 10 * roi_size) \div 10
        ry == Max(0, c.y - 10 * roi_size) \div 10
    IN  [rx |-> rx, ry |-> ry,
         rw |-> Min(frame.w - rx, roi_size * 2),
         rh |-> Min(frame.h - ry, roi_size * 2)]

\* The region has no area: the center lies roi_size or more beyond the right
\* or the bottom edge of the frame.
Degenerate(bbox) == bbox.rw <= 0 \/ bbox.rh <= 0

\* _init_csrt, lines 84-94: a new tracker object is assigned, then initialized
\* on the region.  What cv2 does with a region of no area is not the code's to
\* decide: rejects says whether TrackerCSRT.init raises on it.
init_csrt_raises(s, frame, c, rejects) == rejects /\ Degenerate(make_roi_bbox(s, c, frame))
init_csrt(s, frame, c, rejects) ==
    IF init_csrt_raises(s, frame, c, rejects)
    THEN [s EXCEPT !.csrt_tracker = Uninit]
    ELSE [s EXCEPT !.csrt_tracker = Csrt(c)]

\* goodFeaturesToTrack without its limit.
good_features_unlimited(corners, maxCorners) == corners

\* cv2.goodFeaturesToTrack, lines 112-120: of the corners of the region, the
\* first maxCorners (they come strongest first).
good_features(corners, maxCorners) == SubSeq(corners, 1, Min(Len(corners), maxCorners))

\* _init_lk_points, lines 96-133: corners are the corners of the region, of
\* which goodFeaturesToTrack returns at most max_points; with no region or no
\* corner the one synthetic point at the center is tracked.
init_lk_points(s, frame, c, corners) ==
    LET found == good_features(corners, max_points)
    IN  IF Degenerate(make_roi_bbox(s, c, frame)) \/ Len(found) = 0
        THEN [s EXCEPT !.tracking_points = <<c>>, !.good_points_indices = {1}]
        ELSE [s EXCEPT !.tracking_points = found,
                       !.good_points_indices = 1..Len(found)]

\* sorted(): the values of a sequence in increasing order.
\* The element of rank k is the value that has fewer than k elements below
\* it and at least k elements not above it.
Sorted(q) ==
    [k \in 1..Len(q) |->
        CHOOSE v \in {q[j] : j \in 1..Len(q)} :
            /\ Cardinality({j \in 1..Len(q) : q[j] < v}) < k
            /\ Cardinality({j \in 1..Len(q) : q[j] <= v}) >= k]

\* _lk_center, lines 135-147: per axis the element of index len // 2 of the
\* sorted coordinates (counted from 0).
lk_center(points) ==
    IF Len(points) = 0 THEN NoPoint
    ELSE IF Len(points) = 1 THEN points[1]
    ELSE [x |-> Sorted([k \in 1..Len(points) |-> points[k].x])[(Len(points) \div 2) + 1],
          y |-> Sorted([k \in 1..Len(points) |-> points[k].y])[(Len(points) \div 2) + 1]]

\* What the handlers hand back to the model: the session after the call, the
\* estimator reports the call saw (its locals csrt_ok, csrt_center, lk_center)
\* and its result.
Out(s, csrt_ok, csrt_center, lkc, res) ==
    [s |-> s, csrt_ok |-> csrt_ok, csrt_center |-> csrt_center, lk_center |-> lkc, res |-> res,
     reseed |-> FALSE]

\* A start that keeps the template size of the session it finds tracking.
start_template_size_kept(s, template_size) ==
    IF s.is_tracking THEN s.template_size ELSE template_size

\* start_tracking, line 163: the template size of the request.
start_template_size(s, template_size) == template_size

\* A start that keeps the center of the session it finds.
start_center_kept(s, point) ==
    IF s.last_valid_center # NoPoint THEN s.last_valid_center ELSE point

\* start_tracking, lines 170 and 179: last_valid_center is the tracking point
\* of the request, as floats (exact for the coordinates of a frame).
start_center(s, point) == point

\* start_tracking, lines 149-185.  decodable: decode_frame (line 156) returns;
\* otherwise it raises before any field is assigned.
start_tracking(s, decodable, frame, point, template_size, corners, rejects) ==
    IF ~decodable THEN Out(s, FALSE, NoPoint, NoPoint, Raised("decode"))
    ELSE LET s1 == [s EXCEPT !.is_tracking = TRUE, !.frame_count = 0,
                             !.out_of_bounds_count = 0,
                             !.frame_width = frame.w, !.frame_height = frame.h,
                             !.template_size = start_template_size(s, template_size)]
             s2 == init_csrt(s1, frame, point, rejects)
             s3 == init_lk_points(s2, frame, point, corners)
             s4 == [s3 EXCEPT !.prev_gray = frame,
                              !.last_valid_center = start_center(s3, point)]
         IN  IF init_csrt_raises(s1, frame, point, rejects)
             THEN Out(s2, FALSE, NoPoint, NoPoint, Raised("cv2.error"))
             ELSE Out(s4, FALSE, NoPoint, NoPoint,
                      Result(TRUE, "", "csrt", 0, NoPoint, Len(s4.tracking_points)))

\* process_frame, lines 216-219: the optical-flow step runs.
lk_runs(s, frame) ==
    /\ s.prev_gray # NoFrame /\ s.tracking_points # <<>>
    /\ Cardinality(s.good_points_indices) >= min_points
    /\ frame = s.prev_gray

\* process_frame, lines 233-242: the indices whose point has status 1 and a
\* new position inside the frame; lk is what calcOpticalFlowPyrLK reports for
\* each tracked index.
lk_survivors(s, frame, lk) ==
    {i \in s.good_points_indices :
        /\ lk[i].st = 1
        /\ 0 <= lk[i].p.x /\ lk[i].p.x < 10 * frame.w
        /\ 0 <= lk[i].p.y /\ lk[i].p.y < 10 * frame.h}

\* process_frame, lines 229-244: good_points, in index order.
lk_good_points(s, frame, lk) ==
    LET keep == lk_survivors(s, frame, lk)
        idxs == SelectSeq([i \in 1..Len(s.tracking_points) |-> i], LAMBDA i : i \in keep)
    IN  [k \in 1..Len(idxs) |-> lk[idxs[k]].p]

\* process_frame, lines 213-248: the session after the secondary estimator.
\* The survivors' positions are stored as they are found (lines 243-244); the
\* set of valid indices is replaced only when a center is produced.
lk_step(s, frame, lk) ==
    IF ~lk_runs(s, frame) THEN s
    ELSE LET keep == lk_survivors(s, frame, lk)
             s1 == [s EXCEPT !.tracking_points =
                        [i \in 1..Len(@) |-> IF i \in keep THEN lk[i].p ELSE @[i]]]
         IN  IF Cardinality(keep) >= min_points
             THEN [s1 EXCEPT !.good_points_indices = keep]
             ELSE s1

\* process_frame, lines 214 and 246-247: lk_center, NoPoint when none.
lk_result(s, frame, lk) ==
    IF lk_runs(s, frame) /\ Len(lk_good_points(s, frame, lk)) >= min_points
    THEN lk_center(lk_good_points(s, frame, lk))
    ELSE NoPoint

\* The weighted average with the two weights exchanged.
fuse_swapped(c, l) == [x |-> (3 * c.x + 7 * l.x) \div 10, y |-> (3 * c.y + 7 * l.y) \div 10]

\* process_frame, lines 262-265: the weighted average, per axis.
fuse(c, l) == [x |-> (7 * c.x + 3 * l.x) \div 10, y |-> (7 * c.y + 3 * l.y) \div 10]

\* Line 302 without its floor.
fallback_confidence_unfloored(count) == ConfBase - count * ConfStep

\* process_frame, line 302, in thousandths.
fallback_confidence(count) == Max(ConfFloor, ConfBase - count * ConfStep)

\* A successful frame that leaves the failure counter as it is.
count_reset_missing(count) == count

\* process_frame, lines 269 and 281: a frame on which an estimator succeeded
\* resets the failure counter.
count_reset(count) == 0

\* The confidence computed from the counter as it was before line 296.
stale_confidence_before(before, after) == fallback_confidence(before)

\* process_frame, lines 296-302: the confidence of the both-failed branch is
\* computed from the counter after its increment.
stale_confidence(before, after) == fallback_confidence(after)

\* process_frame, lines 250-308: the fusion of the two reports.  The session
\* and the result; a raise of _init_csrt (line 307) leaves the call with the
\* counter already incremented.
fusion(s, frame, csrt_ok, csrt_center, lkc, corners, rejects) ==
    IF csrt_ok /\ csrt_center # NoPoint
    THEN LET center == IF lkc # NoPoint THEN fuse(csrt_center, lkc) ELSE csrt_center
             method == IF lkc # NoPoint THEN "csrt_lk_fused" ELSE "csrt"
             confidence == IF lkc # NoPoint THEN ConfFused ELSE ConfCsrt
         IN  [s |-> [s EXCEPT !.last_valid_center = center,
                              !.out_of_bounds_count = count_reset(@)],
              res |-> Result(TRUE, "", method, confidence, center, 0)]
    ELSE IF lkc # NoPoint
    THEN LET s1 == [s EXCEPT !.last_valid_center = lkc,
                             !.out_of_bounds_count = count_reset(@)]
         IN  [s |-> init_csrt(s1, frame, lkc, rejects),
              res |-> IF init_csrt_raises(s1, frame, lkc, rejects)
                      THEN Raised("cv2.error")
                      ELSE Result(TRUE, "", "lk_fallback", ConfLk, lkc, 0)]
    ELSE LET s1 == [s EXCEPT !.out_of_bounds_count = @ + 1]
             c == s1.last_valid_center
             shown == IF c # NoPoint THEN c
                      ELSE [x |-> (10 * frame.w) \div 2, y |-> (10 * frame.h) \div 2]
             res == Result(TRUE, "", "fallback_last_valid",
                           stale_confidence(s.out_of_bounds_count,
                                            s1.out_of_bounds_count), shown, 0)
         IN  IF c = NoPoint THEN [s |-> s1, res |-> res]
             ELSE IF init_csrt_raises(s1, frame, c, rejects)
             THEN [s |-> init_csrt(s1, frame, c, rejects), res |-> Raised("cv2.error")]
             ELSE [s |-> init_lk_points(init_csrt(s1, frame, c, rejects), frame, c, corners),
                   res |-> res]

\* process_frame, line 311: the periodic refresh of the flow points is due.
refresh_due(s) ==
    s.frame_count > 0 /\ s.frame_count % 30 = 0 /\ s.last_valid_center # NoPoint

\* process_frame, lines 310-318: the periodic refresh of the flow points, the
\* frame kept as prev_gray, the frame counter.
process_tail(s, frame, corners) ==
    LET s1 == IF refresh_due(s)
              THEN init_lk_points(s, frame, s.last_valid_center, corners)
              ELSE s
    IN  [s1 EXCEPT !.prev_gray = frame, !.frame_count = @ + 1]

\* process_frame, lines 192-318, in a session that is tracking.  csrt is what
\* csrt_tracker.update reports: ok with a center, failure, or an exception.
process_tracking(s, decodable, frame, csrt, lk, corners, rejects) ==
    IF ~decodable THEN Out(s, FALSE, NoPoint, NoPoint, Raised("decode"))
    ELSE IF s.csrt_tracker # NoTracker /\ csrt.kind = "raise"
    THEN Out(s, FALSE, NoPoint, NoPoint, Raised("cv2.error in update"))
    ELSE LET csrt_ok == s.csrt_tracker # NoTracker /\ csrt.kind = "ok"
             csrt_center == IF csrt_ok THEN csrt.c ELSE NoPoint
             lkc == lk_result(s, frame, lk)
             f == fusion(lk_step(s, frame, lk), frame, csrt_ok, csrt_center, lkc,
                         corners, rejects)
         IN  IF f.res.kind = "raise" THEN Out(f.s, csrt_ok, csrt_center, lkc, f.res)
             ELSE [Out(process_tail(f.s, frame, corners), csrt_ok, csrt_center, lkc, f.res)
                      EXCEPT !.reseed = refresh_due(f.s)]

\* process_frame without the guard of lines 189-190.
process_frame_unguarded(s, decodable, frame, csrt, lk, corners, rejects) ==
    process_tracking(s, decodable, frame, csrt, lk, corners, rejects)

\* process_frame, lines 187-318.
process_frame(s, decodable, frame, csrt, lk, corners, rejects) ==
    IF ~s.is_tracking
    THEN Out(s, FALSE, NoPoint, NoPoint, Result(FALSE, "Not tracking", "", 0, NoPoint, 0))
    ELSE process_tracking(s, decodable, frame, csrt, lk, corners, rejects)

\* A stop that leaves the two counters as they are.
stop_tracking_keeps_counters(s) ==
    Out([s EXCEPT !.is_tracking = FALSE, !.csrt_tracker = NoTracker, !.prev_gray = NoFrame,
                  !.tracking_points = <<>>, !.good_points_indices = {},
                  !.last_valid_center = NoPoint],
        FALSE, NoPoint, NoPoint, Result(TRUE, "", "", 0, NoPoint, 0))

\* stop_tracking, lines 320-329, and the handler's reply, lines 372-374.
stop_tracking(s) ==
    Out([s EXCEPT !.is_tracking = FALSE, !.csrt_tracker = NoTracker, !.prev_gray = NoFrame,
                  !.tracking_points = <<>>, !.good_points_indices = {},
                  !.last_valid_center = NoPoint, !.out_of_bounds_count = 0,
                  !.frame_count = 0],
        FALSE, NoPoint, NoPoint, Result(TRUE, "", "", 0, NoPoint, 0))

\* cleanup, lines 331-333, and the handler's reply, lines 376-378.
tracker_cleanup(s) == stop_tracking(s)

\* The record of a call on the engine: its name and arguments, the estimator
\* reports it saw and its result.
Io(call, decodable, frame, point, out) ==
    [call |-> call, decodable |-> decodable, frame |-> frame, point |-> point,
     csrt_ok |-> out.csrt_ok, csrt_center |-> out.csrt_center,
     lk_center |-> out.lk_center, res |-> out.res, reseed |-> out.reseed]
NoIo ==
    [call |-> "none", decodable |-> TRUE, frame |-> NoFrame, point |-> NoPoint,
     csrt_ok |-> FALSE, csrt_center |-> NoPoint, lk_center |-> NoPoint, res |-> NoResult,
     reseed |-> FALSE]

\* The inputs the engine is driven with: two frame shapes, a tracking point
\* inside both and one inside the wide frame only (more than the region size
\* beyond the right edge of the narrow one), the centers the primary estimator
\* reports, the corners found in a region, the position optical flow moves
\* a point to (inside the wide frame, outside the narrow one).
Frames == {Frame(200, 100), Frame(60, 100)}
StartPoints == {Pt(50, 50), Pt(150, 50)}
TemplateSizes == {DefaultTemplateSize}
CsrtCenters == {Pt(40, 50)}
Corner(k) == Pt(40 + 5 * k, 50)
CornerSeqs == {[k \in 1..n |-> Corner(k)] : n \in 0..Min(MaxCorners, max_points)}
LkPositions == {Pt(100, 50)}

\* csrt_tracker.update, line 204: a center inside the frame, or failure; on a
\* tracker whose init raised, failure or an exception.
CsrtReports(s, frame) ==
    IF s.csrt_tracker = Uninit
    THEN {[kind |-> "fail", c |-> NoPoint], [kind |-> "raise", c |-> NoPoint]}
    ELSE {[kind |-> "fail", c |-> NoPoint]}
             \cup {[kind |-> "ok", c |-> c] : c \in {q \in CsrtCenters : q.x < 10 * frame.w}}

\* calcOpticalFlowPyrLK, lines 221-227: per tracked index a status and a new
\* position; one report when the step does not run.
LkOutcomes == {[st |-> 0, p |-> NoPoint]} \cup {[st |-> 1, p |-> q] : q \in LkPositions}
LkReports(s, frame) ==
    IF lk_runs(s, frame) /\ s.is_tracking
    THEN [s.good_points_indices -> LkOutcomes]
    ELSE {[i \in s.good_points_indices |-> [st |-> 0, p |-> NoPoint]]}

VARIABLES
    \* TrackerBridge fields
    process,        \* _process: 0 is None, else the subprocess
    is_ready,       \* _is_ready
    startup_info,   \* _startup_info: NoMsg is None
    request_id,     \* _request_id
    pending,        \* _pending: key -> the task whose frame holds the future
    read_task,      \* _read_task: 0 is None, else the reader task
    \* caller tasks: the coroutine each runs and its locals
    op,             \* "idle", "initialize", "send", "cleanup"
    pc,             \* where the task is suspended
    cont,           \* the call site a running cleanup() returns to
    cmd,            \* send_command: command["command"]
    rid,            \* send_command: rid
    tmo,            \* send_command: timeout
    future,         \* send_command / _wait_for_startup: future
    wproc,          \* the subprocess whose drain()/wait() the task awaits
    outcome,        \* what the call returned or raised
    \* reader tasks (_read_stdout), one per spawn
    rdState,        \* "none", "start", "waiting", "cancelling", "done"
    rdOn,           \* the subprocess whose stdout.readline() it awaits
    rdBy,           \* the task that cancelled it
    \* subprocesses
    nproc,          \* subprocesses spawned so far
    alive,          \* the OS process exists
    wk,             \* worker position: "none", "boot", "run", "dead"
    stdin,          \* request lines written and not yet read by the worker
    stdout,         \* lines written by the worker and not yet read by the bridge
    wk_request_id,  \* main(): the local request_id
    \* history
    cl_seen,        \* per task: the calls found waiting while its cleanup() ran
    \* the tracking engine (tracker.py, NativeTracker), checked on its own
    tracker,        \* main(): tracker = NativeTracker(), the session
    tk_io,          \* the last call made on it: arguments, estimator reports, result
    cv2_rejects     \* whether this build of OpenCV raises on a region without area

vars == <<process, is_ready, startup_info, request_id, pending, read_task,
          op, pc, cont, cmd, rid, tmo, future, wproc, outcome,
          rdState, rdOn, rdBy, nproc, alive, wk, stdin, stdout, wk_request_id,
          cl_seen, tracker, tk_io, cv2_rejects>>

\* The state as one record, and the step that installs a record as the next state.
Cur ==
    [process |-> process, is_ready |-> is_ready, startup_info |-> startup_info,
     request_id |-> request_id, pending |-> pending, read_task |-> read_task,
     op |-> op, pc |-> pc, cont |-> cont, cmd |-> cmd, rid |-> rid, tmo |-> tmo,
     future |-> future, wproc |-> wproc, outcome |-> outcome,
     rdState |-> rdState, rdOn |-> rdOn, rdBy |-> rdBy,
     nproc |-> nproc, alive |-> alive, wk |-> wk, stdin |-> stdin,
     stdout |-> stdout, wk_request_id |-> wk_request_id]

\* The future of task t is registered in the pending table and not done.
Waiting(s, t) == s.future[t].st = "pending" /\ \E k \in DOMAIN s.pending : s.pending[k] = t

\* Task u is suspended inside cleanup(): in drain() (line 221) or in
\* wait_for(self._process.wait(), 3.0) (line 227).
InCleanup(s, u) == s.pc[u] \in {"cl_drain", "cl_wait"}

\* History of the running cleanup() calls when the state becomes s: the calls
\* waiting when the cleanup began and those found waiting since.
Track(s) ==
    [u \in Tasks |->
        IF InCleanup(s, u)
        THEN (IF InCleanup(Cur, u) THEN cl_seen[u] ELSE {t \in Tasks : Waiting(Cur, t)})
                 \cup {t \in Tasks : Waiting(s, t)}
        ELSE {}]

Commit(s) ==
    /\ process' = s.process
    /\ is_ready' = s.is_ready
    /\ startup_info' = s.startup_info
    /\ request_id' = s.request_id
    /\ pending' = s.pending
    /\ read_task' = s.read_task
    /\ op' = s.op
    /\ pc' = s.pc
    /\ cont' = s.cont
    /\ cmd' = s.cmd
    /\ rid' = s.rid
    /\ tmo' = s.tmo
    /\ future' = s.future
    /\ wproc' = s.wproc
    /\ outcome' = s.outcome
    /\ rdState' = s.rdState
    /\ rdOn' = s.rdOn
    /\ rdBy' = s.rdBy
    /\ nproc' = s.nproc
    /\ alive' = s.alive
    /\ wk' = s.wk
    /\ stdin' = s.stdin
    /\ stdout' = s.stdout
    /\ wk_request_id' = s.wk_request_id
    /\ cl_seen' = Track(s)
    /\ UNCHANGED <<tracker, tk_io, cv2_rejects>>

\* TrackerBridge.__init__, no caller started, no subprocess spawned.
InitBridge ==
    /\ process = 0
    /\ is_ready = FALSE
    /\ startup_info = NoMsg
    /\ request_id = 0
    /\ pending = EmptyMap
    /\ read_task = 0
    /\ op = [t \in Tasks |-> "idle"]
    /\ pc = [t \in Tasks |-> "idle"]
    /\ cont = [t \in Tasks |-> "none"]
    /\ cmd = [t \in Tasks |-> "none"]
    /\ rid = [t \in Tasks |-> NoRid]
    /\ tmo = [t \in Tasks |-> 0]
    /\ future = [t \in Tasks |-> NoFuture]
    /\ wproc = [t \in Tasks |-> 0]
    /\ outcome = [t \in Tasks |-> NoOutcome]
    /\ rdState = [r \in Procs |-> "none"]
    /\ rdOn = [r \in Procs |-> 0]
    /\ rdBy = [r \in Procs |-> 0]
    /\ cl_seen = [t \in Tasks |-> {}]
    /\ tracker = NewTracker
    /\ tk_io = NoIo

Init ==
    /\ InitBridge
    /\ nproc = 0
    /\ alive = [p \in Procs |-> FALSE]
    /\ wk = [p \in Procs |-> "none"]
    /\ stdin = [p \in Procs |-> <<>>]
    /\ stdout = [p \in Procs |-> <<>>]
    /\ wk_request_id = [p \in Procs |-> NoRid]
    /\ cv2_rejects = TRUE

\* ---- TrackerBridge: code segments as state transformers ----------------------

\* The coroutine of task t ends with result res; its frame is dropped (but for
\* cmd and rid, which the properties refer to).
Done(s, t, res) ==
    [s EXCEPT !.pc[t] = "done", !.outcome[t] = res, !.future[t] = NoFuture,
              !.tmo[t] = 0, !.cont[t] = "none", !.wproc[t] = 0]

\* The process p is gone: killed, crashed or exited; its stdin pipe goes with it.
Kill(s, p) ==
    [s EXCEPT !.alive[p] = FALSE, !.wk[p] = "dead", !.stdin[p] = <<>>,
              !.wk_request_id[p] = NoRid]

\* for rid, future in list(self._pending.items()): if not future.done():
\*     future.set_exception(RuntimeError(err)); self._pending.clear()
fail_pending(s, err) ==
    [s EXCEPT
        !.future = [t \in Tasks |->
            IF (\E k \in DOMAIN s.pending : s.pending[k] = t) /\ s.future[t].st = "pending"
            THEN Fut("exception", NoMsg, err)
            ELSE s.future[t]],
        !.pending = EmptyMap]

\* Where a finished cleanup() returns to: its caller (k = "ret"), or initialize
\* at line 32 ("spawn": goes on to await create_subprocess_exec), line 74
\* ("startup_timeout") or line 89 ("ping_failed").
cleanup_return(s, t, k) ==
    CASE k = "spawn" -> [s EXCEPT !.pc[t] = "spawning", !.cont[t] = "none", !.wproc[t] = 0]
      [] k = "startup_timeout" ->
            Done(s, t, Return("Tracker startup timeout"))
      [] k = "ping_failed" ->
            Done(s, t, Return("Ping failed"))
      [] OTHER ->
            Done(s, t, Return("success"))

\* cleanup_tail without the loop of lines 241-243: the table is cleared and
\* the futures in it are left as they are.
cleanup_tail_clears_only(s, t, k) ==
    cleanup_return([s EXCEPT !.process = 0, !.startup_info = NoMsg, !.read_task = 0,
                             !.pending = EmptyMap], t, k)

\* cleanup, lines 234-246: forget the process, cancel the reader task, fail
\* every pending future with "Tracker cleaned up", clear the table, return.
\* Cancelling a task that has not run yet ends it before its body starts;
\* cancelling a suspended one makes its next step raise CancelledError.
cleanup_tail(s, t, k) ==
    LET r == s.read_task
        s1 == [s EXCEPT !.process = 0, !.startup_info = NoMsg, !.read_task = 0]
        s2 == IF r # 0 /\ s1.rdState[r] = "waiting"
              THEN [s1 EXCEPT !.rdState[r] = "cancelling", !.rdOn[r] = 0, !.rdBy[r] = t]
              ELSE IF r # 0 /\ s1.rdState[r] = "start"
              THEN [s1 EXCEPT !.rdState[r] = "done"]
              ELSE s1
    IN  cleanup_return(fail_pending(s2, "Tracker cleaned up"), t, k)

\* cleanup, lines 225-227: self._process.terminate(), then suspend in
\* wait_for(self._process.wait(), 3.0).
cleanup_terminate(s, t, k) ==
    [s EXCEPT !.pc[t] = "cl_wait", !.cont[t] = k, !.wproc[t] = s.process]

\* cleanup, lines 213-227, up to its first suspension.  With no process the
\* whole body runs in one step.  The cleanup line is written when stdin is not
\* closing; drain() suspends while the pipe holds more than it takes.
cleanup(s, t, k) ==
    LET s1 == [s EXCEPT !.is_ready = FALSE]
        p == s1.process
    IN  IF p = 0 THEN cleanup_tail(s1, t, k)
        ELSE IF ~s1.alive[p] THEN cleanup_terminate(s1, t, k)
        ELSE LET s2 == [s1 EXCEPT !.stdin[p] = Append(@, CleanupLine)]
             IN  IF Len(s2.stdin[p]) > StdinCap
                 THEN [s2 EXCEPT !.pc[t] = "cl_drain", !.cont[t] = k, !.wproc[t] = p]
                 ELSE cleanup_terminate(s2, t, k)

\* resolve with the entry left in the table (the pop replaced by a lookup).
resolve_keeps_entry(s, key, payload) ==
    LET t == s.pending[key]
    IN  [s EXCEPT !.future[t] = IF @.st = "pending" THEN Fut("result", payload, "") ELSE @]

\* future = self._pending.pop(key); if not future.done(): future.set_result(payload)
resolve(s, key, payload) ==
    LET t == s.pending[key]
    IN  [s EXCEPT !.pending = Pop(@, key),
                  !.future[t] = IF @.st = "pending" THEN Fut("result", payload, "") ELSE @]

\* _dispatch_response, lines 137-158.
dispatch_response(s, response) ==
    IF response.command = "startup" /\ StartupKey \in DOMAIN s.pending
    THEN resolve(s, StartupKey, response)
    ELSE IF response.command = "startup_error" /\ StartupKey \in DOMAIN s.pending
    THEN resolve(s, StartupKey, response)
    ELSE IF response.rid # NoRid /\ response.rid \in DOMAIN s.pending
    THEN resolve(s, response.rid, [response EXCEPT !.rid = NoRid])
    ELSE s

\* read_finally with the set_exception loop left out: the table is cleared
\* and the futures in it stay unresolved.
read_finally_clears_only(s, r) ==
    [s EXCEPT !.is_ready = FALSE, !.pending = EmptyMap,
              !.rdState[r] = "done", !.rdOn[r] = 0, !.rdBy[r] = 0]

\* _read_stdout, lines 117-122: the finally block, then the task is done.
read_finally(s, r) ==
    LET s1 == fail_pending([s EXCEPT !.is_ready = FALSE], "Tracker process ended")
    IN  [s1 EXCEPT !.rdState[r] = "done", !.rdOn[r] = 0, !.rdBy[r] = 0]

\* _read_stdout, lines 101-102: the loop test reads self._process anew, then
\* the task suspends in readline() on that process's stdout.  A StreamReader
\* has one waiter: readline() on a stream that another task already waits on,
\* with no line buffered, raises RuntimeError, which ends the loop (line 115).
read_loop(s, r) ==
    LET q == s.process
    IN  IF q = 0 THEN read_finally(s, r)
        ELSE IF /\ s.stdout[q] = <<>>
                /\ \E r2 \in Procs \ {r} : s.rdState[r2] = "waiting" /\ s.rdOn[r2] = q
        THEN read_finally(s, r)
        ELSE [s EXCEPT !.rdState[r] = "waiting", !.rdOn[r] = q]

\* _read_stdout, lines 105-116: the line is decoded, parsed and dispatched.
\* json.JSONDecodeError is caught inside the loop (line 111) and the line is
\* skipped; UnicodeDecodeError of decode() (line 105) and AttributeError of
\* response.get on a value that is no dict (line 140) reach the handler of
\* line 115, outside the loop, and the finally block runs.
read_line(s, m, r) ==
    IF m = TextLine THEN read_loop(s, r)
    ELSE IF m \in {NonObjectLine, UndecodableLine} THEN read_finally(s, r)
    ELSE read_loop(dispatch_response(s, m), r)

\* send_command's caller gets res: a caller task ends; initialize, lines
\* 78-90, marks the bridge ready on pong, returns a failure without it, and
\* on any exception runs cleanup() and returns "Ping failed".
send_done(s, t, res) ==
    IF s.op[t] = "send" THEN Done(s, t, res)
    ELSE IF res.kind = "raise" THEN cleanup(s, t, "ping_failed")
    ELSE IF res.msg.pong THEN Done([s EXCEPT !.is_ready = TRUE], t, Return("success"))
    ELSE Done(s, t, Return("Tracker did not respond to ping"))

\* send_command, lines 176-177.
default_timeout(c, timeout) ==
    IF timeout # 0 THEN timeout
    ELSE IF c = "detect_scenes" THEN SCENE_DETECT_TIMEOUT ELSE TRACKING_COMMAND_TIMEOUT

\* send_command with line 165 left out: the counter stays where it is.
next_request_id_reused(n) == n

\* send_command, line 165: self._request_id += 1.
next_request_id(n) == n + 1

\* send_command, lines 160-180, up to its first suspension.  timeout = 0 is
\* None.  With room in the pipe drain() returns at once and the task suspends
\* in wait_for; with a full pipe it suspends in drain().  A write to the pipe
\* of a process that is gone is dropped by the transport, and drain() then
\* raises ConnectionResetError (lost) or, the loss not yet seen, returns.
send_command(s, t, c, timeout, lost) ==
    IF s.process = 0 THEN send_done(s, t, Raise("Tracker process not running"))
    ELSE LET p == s.process
             n == s.request_id
             s1 == [s EXCEPT !.request_id = next_request_id(n),
                             !.rid[t] = n,
                             !.cmd[t] = c,
                             !.tmo[t] = default_timeout(c, timeout),
                             !.future[t] = PendingFuture,
                             !.pending = Put(@, n, t),
                             !.stdin[p] = IF s.alive[p] THEN Append(@, Line("obj", c, n)) ELSE @]
         IN  IF ~s1.alive[p]
             THEN IF lost THEN send_done(s1, t, Raise("Connection lost"))
                  ELSE [s1 EXCEPT !.pc[t] = "send_wait"]
             ELSE IF Len(s1.stdin[p]) > StdinCap
             THEN [s1 EXCEPT !.pc[t] = "send_drain", !.wproc[t] = p]
             ELSE [s1 EXCEPT !.pc[t] = "send_wait"]

\* The outcomes of drain() on the stdin of the bridge's process in state s.
DrainLost(s) == IF s.process # 0 /\ ~s.alive[s.process] THEN BOOLEAN ELSE {FALSE}

\* initialize without the is_ready test of lines 29-30.
initialize_always_restarts(s, t) ==
    cleanup(s, t, "spawn")

\* initialize, lines 28-32.
initialize(s, t) ==
    IF s.is_ready /\ s.process # 0 THEN Done(s, t, Return("alreadyRunning"))
    ELSE cleanup(s, t, "spawn")

\* ---- the worker: src/tracker.py ----------------------------------------------

\* What a command's handler can do: return a success, return a failure, raise.
\* ping, stop_tracking and cleanup only succeed; start_tracking and
\* process_frame decode a frame and index the message, so they can do all
\* three; any other command gets the "Unknown command" failure.
HandlerOutcomes(c) ==
    IF c \in {"ping", "stop_tracking", "cleanup"} THEN {"ok"}
    ELSE IF c \in {"start_tracking", "process_frame"} THEN {"ok", "fail", "raise"}
    ELSE {"fail"}

\* main, lines 358-410: the reply to one non-blank line; prev is the local
\* request_id as the previous iterations left it (NoRid: unbound or None).
worker_reply(line, prev, h) ==
    IF line.kind = "garbage" THEN Msg("parse_error", prev, FALSE, FALSE)
    ELSE IF line.kind = "nonobj" THEN Msg("unknown", prev, FALSE, FALSE)
    ELSE Msg(line.command, line.rid, h = "ok", h = "ok" /\ line.command = "ping")

\* main, line 361: request_id after the line; only a JSON object assigns it.
worker_request_id(line, prev) == IF line.kind = "obj" THEN line.rid ELSE prev

\* main, lines 353-410: one iteration of the loop on the next line of stdin.
\* sys.stdin is a text stream: bytes that its decoder rejects ("undecodable":
\* not valid UTF-8, with the strict error handler of a UTF-8 locale) make the
\* iteration of line 353 raise UnicodeDecodeError outside the try of line
\* 358, which ends main and the process without a reply.
worker_main(s, p, h) ==
    LET line == Head(s.stdin[p])
        s1 == [s EXCEPT !.stdin[p] = Tail(@)]
    IN  IF line.kind = "undecodable" THEN Kill(s, p)
        ELSE IF line.kind = "blank" THEN s1
        ELSE [s1 EXCEPT
                !.stdout[p] = Append(@, worker_reply(line, s.wk_request_id[p], h)),
                !.wk_request_id[p] = worker_request_id(line, @)]

\* tracker.py, lines 19-30 and 343-351: the imports succeed and main writes the
\* startup line, or they fail and the module writes startup_error and exits.
worker_boot(s, p, ok) ==
    IF ok
    THEN [s EXCEPT !.stdout[p] = Append(@, Msg("startup", NoRid, TRUE, FALSE)), !.wk[p] = "run"]
    ELSE Kill([s EXCEPT !.stdout[p] = Append(@, Msg("startup_error", NoRid, FALSE, FALSE))], p)

WorkerBoot(p) ==
    /\ alive[p] /\ wk[p] = "boot"
    /\ \E ok \in BOOLEAN : Commit(worker_boot(Cur, p, ok))

WorkerMain(p) ==
    /\ alive[p] /\ wk[p] = "run" /\ stdin[p] # <<>>
    /\ \E h \in HandlerOutcomes(Head(stdin[p]).command) : Commit(worker_main(Cur, p, h))

\* The process ends on its own or is ended from outside (crash, SIGTERM).
WorkerExit(p) ==
    /\ alive[p]
    /\ Commit(Kill(Cur, p))

\* ---- caller tasks ---------------------------------------------------------------

\* A task whose cancel() of the reader is outstanding has not suspended since.
Runnable(t) == \A r \in Procs : ~(rdState[r] = "cancelling" /\ rdBy[r] = t)

\* Calls started plus subprocesses spawned so far.
Load == Cardinality({t \in Tasks : pc[t] # "idle"}) + nproc

\* Tasks are taken in order: which idle task runs the next call is immaterial.
CanStart(t) ==
    /\ pc[t] = "idle"
    /\ IF t = 1 THEN TRUE ELSE pc[t - 1] # "idle"
    /\ Load < MaxLoad

CallInitialize(t) ==
    /\ CanStart(t)
    /\ Commit(initialize([Cur EXCEPT !.op[t] = "initialize"], t))

CallSend(t) ==
    /\ CanStart(t)
    /\ \E c \in SendCmds, lost \in DrainLost(Cur) :
          Commit(send_command([Cur EXCEPT !.op[t] = "send"], t, c, 0, lost))

CallCleanup(t) ==
    /\ CanStart(t)
    /\ Commit(cleanup([Cur EXCEPT !.op[t] = "cleanup"], t, "ret"))

\* drain() does not (or no longer) suspend on the stdin of p: the pipe is gone
\* or has room again.
DrainReturns(p) == IF alive[p] THEN Len(stdin[p]) <= StdinCap ELSE TRUE

\* initialize, lines 53-62: create_subprocess_exec raises.
SpawnFail(t) ==
    /\ pc[t] = "spawning" /\ Runnable(t)
    /\ Commit(Done(Cur, t, Return("Failed to spawn Python")))

\* initialize, lines 53-69 and _wait_for_startup, lines 94-96: the subprocess
\* exists, the reader task is created, the startup future is registered and
\* the task suspends in wait_for(..., 10.0).
SpawnOk(t) ==
    /\ pc[t] = "spawning" /\ Runnable(t)
    /\ nproc < MaxProcs /\ Load < MaxLoad
    /\ LET p == nproc + 1
       IN  Commit([Cur EXCEPT !.nproc = p, !.alive[p] = TRUE, !.wk[p] = "boot",
                              !.process = p, !.read_task = p, !.rdState[p] = "start",
                              !.future[t] = PendingFuture,
                              !.pending = Put(@, StartupKey, t),
                              !.pc[t] = "st_wait"])

\* initialize, lines 69-72 and 79: the startup future has a result.
StartupReturn(t) ==
    /\ pc[t] = "st_wait" /\ future[t].st = "result"
    /\ LET startup == future[t].val
       IN  IF ~startup.success
           THEN Commit(Done(Cur, t, Return("Startup failed")))
           ELSE \E lost \in DrainLost(Cur) :
                   Commit(send_command([Cur EXCEPT !.startup_info = startup], t, "ping", PingTimeout, lost))

\* initialize, line 69: the startup future has an exception, which is no
\* TimeoutError and leaves initialize.
StartupRaise(t) ==
    /\ pc[t] = "st_wait" /\ future[t].st = "exception"
    /\ Commit(Done(Cur, t, Raise(future[t].err)))

\* wait_for's timer fires: the awaited future is cancelled, the waiting task
\* is woken and runs later.
StartupTimerFire(t) ==
    /\ pc[t] = "st_wait" /\ future[t].st = "pending"
    /\ Commit([Cur EXCEPT !.future[t] = Fut("cancelled", NoMsg, ""), !.pc[t] = "st_timedout"])

\* initialize, lines 73-75.
StartupTimeoutResume(t) ==
    /\ pc[t] = "st_timedout"
    /\ Commit(cleanup(Cur, t, "startup_timeout"))

\* send_command, line 174: the pipe has room again, drain() returns and the
\* task suspends in wait_for.
SendDrained(t) ==
    /\ pc[t] = "send_drain"
    /\ alive[wproc[t]] /\ Len(stdin[wproc[t]]) <= StdinCap
    /\ Commit([Cur EXCEPT !.pc[t] = "send_wait", !.wproc[t] = 0])

\* send_command, line 174: the pipe is lost while the task is suspended in
\* drain(), which raises ConnectionResetError.
SendDrainLost(t) ==
    /\ pc[t] = "send_drain"
    /\ ~alive[wproc[t]]
    /\ Commit(send_done([Cur EXCEPT !.wproc[t] = 0], t, Raise("Connection lost")))

\* send_command, line 180: the future has a result.
SendReturn(t) ==
    /\ pc[t] = "send_wait" /\ future[t].st = "result"
    /\ Commit(send_done(Cur, t, ReturnMsg(future[t].val)))

\* send_command, line 180: the future has an exception.
SendRaise(t) ==
    /\ pc[t] = "send_wait" /\ future[t].st = "exception"
    /\ Commit(send_done(Cur, t, Raise(future[t].err)))

\* wait_for's timer fires: the future is cancelled, the task runs later.
SendTimerFire(t) ==
    /\ pc[t] = "send_wait" /\ future[t].st = "pending"
    /\ Commit([Cur EXCEPT !.future[t] = Fut("cancelled", NoMsg, ""), !.pc[t] = "send_timedout"])

\* send_timeout without the pop of line 182.
send_timeout_keeps_entry(s, t) ==
    send_done(s, t, RaiseTimeout(s.cmd[t], s.tmo[t]))

\* send_timeout with the table cleared instead of the one entry popped.
send_timeout_clears_table(s, t) ==
    send_done([s EXCEPT !.pending = EmptyMap], t, RaiseTimeout(s.cmd[t], s.tmo[t]))

\* send_command, lines 181-183.
send_timeout(s, t) ==
    send_done([s EXCEPT !.pending = Pop(@, s.rid[t])], t, RaiseTimeout(s.cmd[t], s.tmo[t]))

SendTimeoutResume(t) ==
    /\ pc[t] = "send_timedout"
    /\ Commit(send_timeout(Cur, t))

\* cleanup, lines 221-227: drain() returned or raised (swallowed); then
\* self._process.terminate(), which is an AttributeError that leaves cleanup
\* when another task has set self._process to None meanwhile.
CleanupDrained(t) ==
    /\ pc[t] = "cl_drain"
    /\ DrainReturns(wproc[t])
    /\ IF process = 0
       THEN Commit(Done(Cur, t, Raise("AttributeError")))
       ELSE Commit(cleanup_terminate(Cur, t, cont[t]))

\* cleanup, line 227: the process that was waited for has ended.
CleanupWaitReturn(t) ==
    /\ pc[t] = "cl_wait"
    /\ ~alive[wproc[t]]
    /\ Commit(cleanup_tail(Cur, t, cont[t]))

\* cleanup, lines 228-232: the wait timed out after 3 s; self._process.kill().
CleanupWaitTimeout(t) ==
    /\ pc[t] = "cl_wait"
    /\ alive[wproc[t]]
    /\ Commit(cleanup_tail(IF process # 0 THEN Kill(Cur, process) ELSE Cur, t, cont[t]))

\* ---- the reader task: _read_stdout ------------------------------------------------

ReaderStart(r) ==
    /\ rdState[r] = "start"
    /\ Commit(read_loop(Cur, r))

\* lines 102-112 and the next loop test: one line is read and dispatched.
ReaderLine(r) ==
    /\ rdState[r] = "waiting" /\ stdout[rdOn[r]] # <<>>
    /\ LET q == rdOn[r]
           s1 == [Cur EXCEPT !.stdout[q] = Tail(@)]
       IN  Commit(read_line(s1, Head(stdout[q]), r))

\* lines 103-104: readline() returns b'' once the process is gone and its
\* output is consumed.
ReaderEOF(r) ==
    /\ rdState[r] = "waiting" /\ stdout[rdOn[r]] = <<>> /\ ~alive[rdOn[r]]
    /\ Commit(read_finally(Cur, r))

\* lines 113-114: CancelledError at the readline() the task was suspended in.
ReaderCancelled(r) ==
    /\ rdState[r] = "cancelling"
    /\ Commit(read_finally(Cur, r))

\* ---- the specification ---------------------------------------------------------------

TaskStep(t) ==
    \/ CallInitialize(t)
    \/ CallSend(t)
    \/ CallCleanup(t)
    \/ SpawnFail(t)
    \/ SpawnOk(t)
    \/ StartupReturn(t)
    \/ StartupRaise(t)
    \/ StartupTimerFire(t)
    \/ StartupTimeoutResume(t)
    \/ SendDrained(t)
    \/ SendDrainLost(t)
    \/ SendReturn(t)
    \/ SendRaise(t)
    \/ SendTimerFire(t)
    \/ SendTimeoutResume(t)
    \/ CleanupDrained(t)
    \/ CleanupWaitReturn(t)
    \/ CleanupWaitTimeout(t)

ReaderStep(r) ==
    \/ ReaderStart(r)
    \/ ReaderLine(r)
    \/ ReaderEOF(r)
    \/ ReaderCancelled(r)

WorkerStep(p) ==
    \/ WorkerBoot(p)
    \/ WorkerMain(p)
    \/ WorkerExit(p)

Next ==
    \/ \E t \in Tasks : TaskStep(t)
    \/ \E r \in Procs : ReaderStep(r)
    \/ \E p \in Procs : WorkerStep(p)

Spec == Init /\ [][Next]_vars

\* ---- the reader and a worker whose output holds other lines ------------------

\* Everything the subprocess writes to its standard output reaches the reader
\* (stdout=PIPE): besides the replies of main, what the interpreter or a
\* native library prints there.  One such line at a time is in the pipe of
\* the bridge's current process.
WorkerNoise(p) ==
    /\ alive[p] /\ p = process /\ stdout[p] = <<>>
    /\ \E m \in NoiseLines : Commit([Cur EXCEPT !.stdout[p] = Append(@, m)])

\* No other call than t's is under way.
Alone(t) == \A u \in Tasks \ {t} : pc[u] \in {"idle", "done"}

\* A step of a bridge call while no other call is under way.
AloneStep(t) ==
    \/ Alone(t) /\ CallInitialize(t)
    \/ Alone(t) /\ CallSend(t)
    \/ Alone(t) /\ CallCleanup(t)
    \/ Alone(t) /\ SpawnFail(t)
    \/ Alone(t) /\ SpawnOk(t)
    \/ Alone(t) /\ StartupReturn(t)
    \/ Alone(t) /\ StartupRaise(t)
    \/ Alone(t) /\ StartupTimerFire(t)
    \/ Alone(t) /\ StartupTimeoutResume(t)
    \/ Alone(t) /\ SendDrained(t)
    \/ Alone(t) /\ SendDrainLost(t)
    \/ Alone(t) /\ SendReturn(t)
    \/ Alone(t) /\ SendRaise(t)
    \/ Alone(t) /\ SendTimerFire(t)
    \/ Alone(t) /\ SendTimeoutResume(t)
    \/ Alone(t) /\ CleanupDrained(t)
    \/ Alone(t) /\ CleanupWaitReturn(t)
    \/ Alone(t) /\ CleanupWaitTimeout(t)

NextReader ==
    \/ \E t \in Tasks : AloneStep(t)
    \/ \E r \in Procs : ReaderStep(r)
    \/ \E p \in Procs : WorkerStep(p)
    \/ \E p \in Procs : WorkerNoise(p)

\* Bridge calls made one after the other, on workers that also print.
SpecReader == Init /\ [][NextReader]_vars

\* ---- initialize on an event loop whose wait_for wraps its argument in a task ----

\* initialize, lines 53-69, where asyncio.wait_for runs _wait_for_startup()
\* as a task of its own (ensure_future, asyncio before Python 3.12; from
\* 3.12 on the coroutine is awaited in place, which is SpawnOk): the
\* subprocess exists, the reader task of line 64 is created, the task of
\* _wait_for_startup is created after it, and initialize suspends with the
\* startup slot not yet registered.
SpawnDeferred(t) ==
    /\ pc[t] = "spawning" /\ Runnable(t)
    /\ nproc < MaxProcs /\ Load < MaxLoad
    /\ LET p == nproc + 1
       IN  Commit([Cur EXCEPT !.nproc = p, !.alive[p] = TRUE, !.wk[p] = "boot",
                              !.process = p, !.read_task = p, !.rdState[p] = "start",
                              !.pc[t] = "st_register"])

\* _wait_for_startup, lines 94-96, when its task first runs: the startup
\* future is created and registered, and the task suspends on it.
StartupRegister(t) ==
    /\ pc[t] = "st_register"
    /\ Commit([Cur EXCEPT !.future[t] = PendingFuture,
                          !.pending = Put(@, StartupKey, t),
                          !.pc[t] = "st_wait"])

NextStartup ==
    \/ \E t \in Tasks : AloneStep(t)
    \/ \E t \in Tasks : Alone(t) /\ SpawnDeferred(t)
    \/ \E t \in Tasks : Alone(t) /\ StartupRegister(t)
    \/ \E r \in Procs : ReaderStep(r)
    \/ \E p \in Procs : WorkerStep(p)

\* Bridge calls made one after the other, on either kind of event loop.
SpecStartup == Init /\ [][NextStartup]_vars

\* ---- the worker on its own ---------------------------------------------------------

\* The lines a stand-alone worker is fed: requests with and without a
\* _requestId (detect_scenes is a command main has no branch for), text that
\* is not JSON, JSON that is no object, bytes that are no text, blank lines.
InputLines ==
    {Line("obj", c, r) : c \in {"ping", "process_frame"}, r \in {NoRid, 7, 8}}
        \cup {Line("obj", "detect_scenes", r) : r \in {NoRid, 7}}
        \cup {Line("garbage", "none", NoRid), Line("nonobj", "none", NoRid),
              Line("undecodable", "none", NoRid), Line("blank", "none", NoRid)}

InputSeqs == UNION {[1..n -> InputLines] : n \in 0..MaxLines}

\* One worker process, started by hand with its input already in the pipe;
\* no bridge call is ever made.
InitWorker ==
    /\ InitBridge
    /\ nproc = 1
    /\ alive = [p \in Procs |-> p = 1]
    /\ wk = [p \in Procs |-> IF p = 1 THEN "boot" ELSE "none"]
    /\ stdin \in {[p \in Procs |-> IF p = 1 THEN in ELSE <<>>] : in \in InputSeqs}
    /\ stdout = [p \in Procs |-> <<>>]
    /\ wk_request_id = [p \in Procs |-> NoRid]
    /\ cv2_rejects = TRUE

NextWorker == \E p \in Procs : WorkerBoot(p) \/ WorkerMain(p)

SpecWorker == InitWorker /\ [][NextWorker]_vars

\* ---- the tracking engine on its own ---------------------------------------------------

\* The bridge and the worker loop take no part.
BridgeIdle ==
    UNCHANGED <<process, is_ready, startup_info, request_id, pending, read_task,
                op, pc, cont, cmd, rid, tmo, future, wproc, outcome,
                rdState, rdOn, rdBy, nproc, alive, wk, stdin, stdout, wk_request_id,
                cl_seen, cv2_rejects>>

\* main, lines 366-367: a start_tracking request.
StartTracking ==
    \E decodable \in BOOLEAN, frame \in Frames, point \in StartPoints,
       template_size \in TemplateSizes, corners \in CornerSeqs :
    \E out \in {start_tracking(tracker, decodable, frame, point, template_size,
                                corners, cv2_rejects)} :
        /\ decodable \/ (frame = Frame(200, 100) /\ corners = <<>>)
        /\ tracker' = out.s
        /\ tk_io' = Io("start_tracking", decodable, frame, point, out)
        /\ BridgeIdle

\* main, lines 369-370: a process_frame request.
ProcessFrame ==
    /\ tracker.frame_count < MaxFrames /\ tracker.out_of_bounds_count < MaxFrames
    /\ \E decodable \in BOOLEAN, frame \in Frames, corners \in CornerSeqs :
       \E csrt \in CsrtReports(tracker, frame), lk \in LkReports(tracker, frame) :
       \E out \in {process_frame(tracker, decodable, frame, csrt, lk, corners, cv2_rejects)} :
          /\ decodable \/ (frame = Frame(200, 100) /\ corners = <<>> /\ csrt.kind = "fail")
          /\ tracker' = out.s
          /\ tk_io' = Io("process_frame", decodable, frame, NoPoint, out)
          /\ BridgeIdle

\* main, lines 372-374: a stop_tracking request.
StopTracking ==
    /\ tracker' = stop_tracking(tracker).s
    /\ tk_io' = Io("stop_tracking", TRUE, NoFrame, NoPoint, stop_tracking(tracker))
    /\ BridgeIdle

\* main, lines 376-378: a cleanup request.
CleanupTracking ==
    /\ tracker' = tracker_cleanup(tracker).s
    /\ tk_io' = Io("cleanup", TRUE, NoFrame, NoPoint, tracker_cleanup(tracker))
    /\ BridgeIdle

NextTracker ==
    \/ StartTracking
    \/ ProcessFrame
    \/ StopTracking
    \/ CleanupTracking

\* The engine after main() created it (line 338), no worker or bridge around
\* it, on either kind of OpenCV build.
InitTracker ==
    /\ InitBridge
    /\ nproc = 0
    /\ alive = [p \in Procs |-> FALSE]
    /\ wk = [p \in Procs |-> "none"]
    /\ stdin = [p \in Procs |-> <<>>]
    /\ stdout = [p \in Procs |-> <<>>]
    /\ wk_request_id = [p \in Procs |-> NoRid]
    /\ cv2_rejects \in BOOLEAN

SpecTracker == InitTracker /\ [][NextTracker]_vars

\* ---- one long session of the tracking engine ----------------------------------------

\* The corners of a region in a long session: none, a few, or more than
\* goodFeaturesToTrack is asked for.
RunCornerSeqs ==
    {[k \in 1..n |-> Corner(k)] : n \in {0, Min(MaxCorners, max_points), max_points + 1}}

\* calcOpticalFlowPyrLK in a long session: any report on a few points; on
\* many points, all lost, all moved, or all moved but the last.
RunLkReports(s, frame) ==
    IF Cardinality(s.good_points_indices) <= MaxCorners
    THEN LkReports(s, frame)
    ELSE IF ~lk_runs(s, frame)
    THEN {[i \in s.good_points_indices |-> [st |-> 0, p |-> NoPoint]]}
    ELSE {[i \in s.good_points_indices |-> o] : o \in LkOutcomes}
             \cup {[i \in s.good_points_indices |->
                       IF \A j \in s.good_points_indices : j <= i
                       THEN [st |-> 0, p |-> NoPoint] ELSE o] :
                    o \in LkOutcomes \ {[st |-> 0, p |-> NoPoint]}}

\* main, lines 366-367: the start_tracking request that opens the session, on
\* an engine that has served no request yet.
StartRun ==
    /\ tk_io = NoIo
    /\ \E frame \in Frames, point \in StartPoints, template_size \in TemplateSizes,
          corners \in RunCornerSeqs :
       \E out \in {start_tracking(tracker, TRUE, frame, point, template_size,
                                   corners, cv2_rejects)} :
           /\ tracker' = out.s
           /\ tk_io' = Io("start_tracking", TRUE, frame, point, out)
           /\ BridgeIdle

\* main, lines 369-370: a process_frame request of the session, with a
\* decodable frame of the dimensions given at start.
FrameInRun ==
    /\ tracker.is_tracking
    /\ tracker.frame_count < MaxRun /\ tracker.out_of_bounds_count < MaxRun
    /\ \E frame \in {Frame(tracker.frame_width, tracker.frame_height)},
          corners \in RunCornerSeqs :
       \E csrt \in CsrtReports(tracker, frame), lk \in RunLkReports(tracker, frame) :
       \E out \in {process_frame(tracker, TRUE, frame, csrt, lk, corners, cv2_rejects)} :
           /\ tracker' = out.s
           /\ tk_io' = Io("process_frame", TRUE, frame, NoPoint, out)
           /\ BridgeIdle

NextRun ==
    \/ StartRun
    \/ FrameInRun

SpecRun == InitTracker /\ [][NextRun]_vars

\* ---- a series of short sessions of the tracking engine -----------------------------

\* The template sizes of the start requests: the default and a larger one.
SessionTemplateSizes == {DefaultTemplateSize, DefaultTemplateSize + 20}

\* main, lines 366-367: a start_tracking request, in any session state.
StartSession ==
    \E frame \in Frames, point \in StartPoints, template_size \in SessionTemplateSizes,
       corners \in CornerSeqs :
    \E out \in {start_tracking(tracker, TRUE, frame, point, template_size,
                                corners, cv2_rejects)} :
        /\ tracker' = out.s
        /\ tk_io' = Io("start_tracking", TRUE, frame, point, out)
        /\ BridgeIdle

\* main, lines 369-370: a process_frame request, one of the first of its session.
FrameInSession ==
    /\ tracker.frame_count < MaxShort /\ tracker.out_of_bounds_count < MaxShort
    /\ \E frame \in Frames, corners \in CornerSeqs :
       \E csrt \in CsrtReports(tracker, frame), lk \in LkReports(tracker, frame) :
       \E out \in {process_frame(tracker, TRUE, frame, csrt, lk, corners, cv2_rejects)} :
           /\ tracker' = out.s
           /\ tk_io' = Io("process_frame", TRUE, frame, NoPoint, out)
           /\ BridgeIdle

NextSessions ==
    \/ StartSession
    \/ FrameInSession
    \/ StopTracking
    \/ CleanupTracking

SpecSessions == InitTracker /\ [][NextSessions]_vars

\* ---- sessions in which the flow points move apart -----------------------------------

\* The corners found at start: a few, or as many as are asked for (less one).
FlowCornerSeqs ==
    {[k \in 1..n |-> Corner(k)] :
        n \in {MaxFlowPoints - 1, MaxFlowPoints, max_points - 1, max_points}}

\* Where calcOpticalFlowPyrLK may find a point: three places inside the
\* 200x100 frame, on a diagonal, and one to the right of it.
FlowPositions == {Pt(10, 30), Pt(20, 20), Pt(30, 10), Pt(250, 50)}
FlowOutcomes == {[st |-> 0, p |-> NoPoint]} \cup {[st |-> 1, p |-> q] : q \in FlowPositions}

\* calcOpticalFlowPyrLK, lines 221-227: any report on a few points; on many
\* points, the points scattered over the frame with the last ones lost.
FlowReports(s, frame) ==
    IF ~lk_runs(s, frame)
    THEN {[i \in s.good_points_indices |-> [st |-> 0, p |-> NoPoint]]}
    ELSE IF Cardinality(s.good_points_indices) <= MaxFlowPoints
    THEN [s.good_points_indices -> FlowOutcomes]
    ELSE {[i \in s.good_points_indices |->
              IF i > max_points - lost THEN [st |-> 0, p |-> NoPoint]
              ELSE [st |-> 1, p |-> Pt(((m * i) % 17) + 1, ((i * i) % 17) + 1)]] :
            m \in 1..3, lost \in 0..2}

\* main, lines 366-367: the start_tracking request that opens the session.
StartFlow ==
    /\ tk_io = NoIo
    /\ \E corners \in FlowCornerSeqs :
       \E out \in {start_tracking(tracker, TRUE, Frame(200, 100), Pt(50, 50),
                                   DefaultTemplateSize, corners, cv2_rejects)} :
           /\ tracker' = out.s
           /\ tk_io' = Io("start_tracking", TRUE, Frame(200, 100), Pt(50, 50), out)
           /\ BridgeIdle

\* main, lines 369-370: one of the first process_frame requests of the session.
FrameInFlow ==
    /\ tracker.is_tracking /\ tracker.frame_count < MaxFlowFrames
    /\ \E frame \in {Frame(tracker.frame_width, tracker.frame_height)} :
       \E csrt \in CsrtReports(tracker, frame), lk \in FlowReports(tracker, frame) :
       \E out \in {process_frame(tracker, TRUE, frame, csrt, lk, <<>>, cv2_rejects)} :
           /\ tracker' = out.s
           /\ tk_io' = Io("process_frame", TRUE, frame, NoPoint, out)
           /\ BridgeIdle

NextFlow ==
    \/ StartFlow
    \/ FrameInFlow

SpecFlow == InitTracker /\ [][NextFlow]_vars

\* ---- properties -----------------------------------------------------------------------

\* Reader r is suspended in readline() and a line is there for it.
Reading(r) == rdState[r] = "waiting" /\ stdout[rdOn[r]] # <<>>
NextLine(r) == Head(stdout[rdOn[r]])
\* The line carries a _requestId that is a key of the pending table.
CarriesPendingRid(m) == m.rid # NoRid /\ m.rid \in DOMAIN pending

\* What _dispatch_response leaves alone when it handles a reply for key k:
\* every other entry of the table and every other task's future.
OthersUntouched(s2, k) ==
    /\ DOMAIN s2.pending = DOMAIN pending \ {k}
    /\ \A j \in DOMAIN s2.pending : s2.pending[j] = pending[j]
    /\ \A u \in Tasks \ {pending[k]} : s2.future[u] = future[u]

\* C1 as stated: whenever a reply line about to be read carries a _requestId r
\* that is in the pending table, dispatching it resolves the call registered
\* under r with the reply minus its _requestId, removes r from the table and
\* touches no other pending call.
C1_DispatchResolvesRegisteredCall ==
    \A r \in Procs : (Reading(r) /\ CarriesPendingRid(NextLine(r))) =>
        LET m == NextLine(r)
            s2 == dispatch_response(Cur, m)
        IN  /\ s2.future[pending[m.rid]] = Fut("result", [m EXCEPT !.rid = NoRid], "")
            /\ OthersUntouched(s2, m.rid)

\* C1 amended: whenever a reply line about to be read carries a _requestId r
\* that is in the pending table, dispatching it removes r from the table and
\* touches no other pending call; the call registered under r is resolved
\* with the reply minus its _requestId if its future is not done yet, and
\* otherwise (its wait has timed out or was abandoned) the reply is dropped.
C1_DispatchResolvesWaitingCall ==
    \A r \in Procs : (Reading(r) /\ CarriesPendingRid(NextLine(r))) =>
        LET m == NextLine(r)
            t == pending[m.rid]
            s2 == dispatch_response(Cur, m)
        IN  /\ s2.future[t] = IF future[t].st = "pending"
                              THEN Fut("result", [m EXCEPT !.rid = NoRid], "")
                              ELSE future[t]
            /\ OthersUntouched(s2, m.rid)

\* A reply for one of two waiting calls is about to be read.
C1_Witness ==
    \E r \in Procs : /\ Reading(r) /\ CarriesPendingRid(NextLine(r))
                     /\ future[pending[NextLine(r).rid]].st = "pending"
                     /\ \E k \in DOMAIN pending \ {NextLine(r).rid} :
                            k # StartupKey /\ future[pending[k]].st = "pending"

\* The worker p took the first line of its stdin in this step.
WorkerRead(p) == alive[p] /\ alive'[p] /\ stdin[p] # <<>> /\ stdin'[p] = Tail(stdin[p])

\* C2: for every non-blank line the worker reads it writes exactly one reply,
\* and the reply carries the _requestId of that line and no other: none when
\* the line has none or is no JSON object.
C2_OneReplyWithTheRequestsId ==
    [][\A p \in Procs : WorkerRead(p) =>
          LET line == Head(stdin[p])
          IN  IF line.kind = "blank" THEN stdout'[p] = stdout[p]
              ELSE /\ Len(stdout'[p]) = Len(stdout[p]) + 1
                   /\ SubSeq(stdout'[p], 1, Len(stdout[p])) = stdout[p]
                   /\ stdout'[p][Len(stdout'[p])].rid =
                          (IF line.kind = "obj" THEN line.rid ELSE NoRid)]_vars

\* Reader r gets end-of-file in this step: it leaves readline() with no line.
StreamCloses(r) == rdState[r] = "waiting" /\ stdout[rdOn[r]] = <<>> /\ rdState'[r] = "done"

BoundOf(c) == IF c = "detect_scenes" THEN SCENE_DETECT_TIMEOUT ELSE TRACKING_COMMAND_TIMEOUT

\* C4: a send call whose timer has fired fails with the timeout error that
\* names its command and its bound, with its request id out of the pending
\* table; and the id of a call that failed so is never in the table again.
C4_TimeoutFailsCall ==
    /\ [][\A t \in Tasks : (pc[t] = "send_timedout" /\ pc'[t] # pc[t]) =>
              /\ rid[t] \notin DOMAIN pending'
              /\ op[t] = "send" =>
                    /\ pc'[t] = "done"
                    /\ outcome'[t] = RaiseTimeout(cmd[t], BoundOf(cmd[t]))]_vars
    /\ [](\A t \in Tasks :
              (pc[t] = "done" /\ outcome[t].tag = "Tracker command timeout") =>
                  rid[t] \notin DOMAIN pending)

\* A detect_scenes call has failed with the 120 s timeout.
C4_Witness ==
    \E t \in Tasks : /\ op[t] = "send" /\ pc[t] = "done"
                     /\ outcome[t] = RaiseTimeout("detect_scenes", SCENE_DETECT_TIMEOUT)

\* The two steps of a caller's send call timing out: the timer fires, the
\* call raises.
TimesOut(t) ==
    /\ op[t] = "send"
    /\ \/ pc[t] = "send_wait" /\ pc'[t] = "send_timedout"
       \/ pc[t] = "send_timedout" /\ pc'[t] = "done"

\* C5: a caller's send call timing out changes nothing but that call: the
\* process, its pipes, the ready flag, the startup info and the reader are as
\* before, every other entry of the pending table is kept, and every other
\* task and its future are untouched.
C5_TimeoutTouchesOnlyItsCall ==
    [][\A t \in Tasks : TimesOut(t) =>
          /\ process' = process /\ alive' = alive /\ wk' = wk
          /\ stdin' = stdin /\ stdout' = stdout
          /\ is_ready' = is_ready /\ startup_info' = startup_info
          /\ read_task' = read_task /\ rdState' = rdState /\ rdOn' = rdOn
          /\ DOMAIN pending \ {rid[t]} = DOMAIN pending' \ {rid[t]}
          /\ \A k \in DOMAIN pending \ {rid[t]} : pending'[k] = pending[k]
          /\ \A u \in Tasks \ {t} :
                future'[u] = future[u] /\ pc'[u] = pc[u] /\ outcome'[u] = outcome[u]]_vars

\* One call has timed out while another one, sent before it, still waits on
\* a ready bridge.
C5_Witness ==
    \E t, u \in Tasks :
        /\ op[t] = "send" /\ pc[t] = "done" /\ outcome[t].tag = "Tracker command timeout"
        /\ op[u] = "send" /\ pc[u] = "send_wait" /\ future[u].st = "pending"
        /\ rid[u] \in DOMAIN pending /\ rid[u] < rid[t]
        /\ is_ready /\ process # 0 /\ alive[process]

\* The steps of a send call that need no step of the worker.
SendProgress(t) ==
    \/ SendDrained(t)
    \/ SendDrainLost(t)
    \/ SendReturn(t)
    \/ SendRaise(t)
    \/ SendTimerFire(t)
    \/ SendTimeoutResume(t)

\* C6: no send call blocks forever whatever the worker does: in every state
\* an unfinished send call has a step to take (its reply, its timer, the
\* process-ended error) while the worker does nothing.
C6_SendNeverBlocks ==
    \A t \in Tasks :
        (op[t] = "send" /\ pc[t] \in {"send_drain", "send_wait", "send_timedout"}) =>
            ENABLED SendProgress(t)

\* The bridge has no live worker.
NoLiveWorker == IF process = 0 THEN TRUE ELSE ~alive[process]

\* C7: a send call made while the bridge has no live worker fails at once: it
\* ends in the step that starts it with an error, registers nothing in
\* the pending table and writes nothing.
C7_SendWithoutWorkerFailsAtOnce ==
    [][\A t \in Tasks : (NoLiveWorker /\ pc[t] = "idle" /\ op'[t] = "send") =>
          /\ pc'[t] = "done" /\ outcome'[t].kind = "raise"
          /\ pending' = pending
          /\ stdin' = stdin]_vars

\* No other task runs initialize or cleanup in this behaviour: whatever task t
\* meets is of its own making, the worker's or a send call's.
RunsAlone(t) == \A u \in Tasks \ {t} : op[u] \notin {"initialize", "cleanup"}

\* C8, for an initialize call that no other initialize or cleanup overlaps:
\* when it returns a failure the bridge holds no process, is not ready and its
\* pending table is empty.
C8_FailedInitializeTornDown ==
    [][\A t \in Tasks :
          (/\ RunsAlone(t)
           /\ op[t] = "initialize" /\ pc[t] # "done" /\ pc'[t] = "done"
           /\ outcome'[t].kind = "return"
           /\ outcome'[t].tag \notin {"success", "alreadyRunning"}) =>
          /\ process' = 0
          /\ ~is_ready'
          /\ pending' = EmptyMap]_vars

\* C9, for an initialize call that no other initialize or cleanup overlaps: it
\* ends by returning a result, never by raising.
C9_InitializeReturns ==
    \A t \in Tasks :
        (RunsAlone(t) /\ op[t] = "initialize" /\ pc[t] = "done") => outcome[t].kind = "return"

\* C10: at most one subprocess spawned by the bridge is alive.
C10_OneWorkerAlive == Cardinality({p \in Procs : alive[p]}) <= 1

\* C11: whenever the bridge reports ready (is_ready, lines 24-26) it holds a
\* process and the successful startup message recorded at line 72; the flag
\* is set only by the step that receives the pong of initialize's ping.
C11_ReadyMeansHandshakeDone ==
    (is_ready /\ process # 0) =>
        (startup_info.command = "startup" /\ startup_info.success)

\* Task t calls initialize in this step on a bridge that reports ready.
InitializeOnReady(t) == pc[t] = "idle" /\ op'[t] = "initialize" /\ is_ready /\ process # 0

\* C12: initialize on a ready bridge returns the already-running success in
\* the step that calls it and changes nothing else: process, reader, pipes,
\* pending table, request-id counter, startup info, ready flag and every
\* other task are as before.
C12_InitializeOnReadyChangesNothing ==
    [][\A t \in Tasks : InitializeOnReady(t) =>
          /\ pc'[t] = "done" /\ outcome'[t] = Return("alreadyRunning")
          /\ process' = process /\ nproc' = nproc /\ alive' = alive /\ wk' = wk
          /\ stdin' = stdin /\ stdout' = stdout
          /\ pending' = pending /\ request_id' = request_id
          /\ startup_info' = startup_info /\ is_ready' = is_ready
          /\ read_task' = read_task /\ rdState' = rdState /\ rdOn' = rdOn
          /\ \A u \in Tasks \ {t} :
                pc'[u] = pc[u] /\ future'[u] = future[u] /\ outcome'[u] = outcome[u]]_vars

\* An initialize call was answered already-running while another call was
\* waiting for its reply from the live worker.
C12_Witness ==
    \E t, u \in Tasks :
        /\ op[t] = "initialize" /\ pc[t] = "done" /\ outcome[t] = Return("alreadyRunning")
        /\ op[u] = "send" /\ pc[u] = "send_wait" /\ future[u].st = "pending"
        /\ is_ready /\ process # 0 /\ alive[process]

\* A cleanup() call made by a caller returns in this step.
CleanupReturns(u) ==
    op'[u] = "cleanup" /\ pc[u] # "done" /\ pc'[u] = "done" /\ outcome'[u].kind = "return"

\* The calls that were waiting when the cleanup() of task u began or were
\* found waiting while it ran, up to the state it returns from.
PendingDuring(u) ==
    (IF InCleanup(Cur, u) THEN cl_seen[u] ELSE {}) \cup {t \in Tasks : Waiting(Cur, t)}

\* What the bridge is when cleanup() returns: lines 214, 234-235, 239, 244.
TornDown ==
    /\ process' = 0 /\ ~(is_ready' /\ process' # 0)
    /\ startup_info' = NoMsg /\ read_task' = 0
    /\ pending' = EmptyMap

WorkerExitSeen ==
    /\ process # 0 /\ ~alive[process]
    /\ read_task # 0 /\ rdState[read_task] = "done"

\* No other call is running when task t makes its call.
Quiet(t) == \A u \in Tasks \ {t} : pc[u] \in {"idle", "done"}

\* C14, for the worker-exit fault: an initialize call made after the worker
\* has exited and the reader has seen it, with no other call running,
\* launches a fresh worker: it goes on to tear down and spawn and does not
\* return in the step that calls it.
C14_InitializeAfterExitRelaunches ==
    [][\A t \in Tasks :
          (pc[t] = "idle" /\ op'[t] = "initialize" /\ WorkerExitSeen /\ Quiet(t)) =>
              pc'[t] \in {"cl_drain", "cl_wait", "spawning"}]_vars

\* C27: every send_command call that gets a request identifier gets one
\* strictly greater than every identifier handed out before, also across
\* cleanup and a new initialize and whatever the end of the call; an
\* identifier once handed out is not changed, and the counter never goes back.
C27_RequestIdsStrictlyIncrease ==
    [][/\ request_id' >= request_id
       /\ \A t \in Tasks :
             rid'[t] # rid[t] =>
                /\ rid[t] = NoRid /\ rid'[t] # NoRid
                /\ rid'[t] = request_id /\ request_id' > rid'[t]
                /\ \A u \in Tasks \ {t} :
                      rid[u] # NoRid => rid'[u] = rid[u] /\ rid'[t] > rid[u]]_vars

\* C27 witness: the ping of a first initialize got an identifier and failed,
\* the bridge was cleaned up, and the ping of a later initialize, written to
\* the second subprocess, has got a greater one.
C27_Witness ==
    \E t, u \in Tasks :
        /\ rid[t] # NoRid /\ pc[t] = "done" /\ outcome[t].tag = "Ping failed"
        /\ rid[u] # NoRid /\ rid[u] > rid[t]
        /\ nproc = 2 /\ process = 2
        /\ \E i \in 1..Len(stdin[2]) : stdin[2][i].rid = rid[u]

\* Reader r takes the line that is there for it in this step.
ReadsLine(r) == Reading(r) /\ stdout'[rdOn[r]] = Tail(stdout[rdOn[r]])
\* The line carries a _requestId that is no key of the pending table.
CarriesUnknownRid(m) == m.rid # NoRid /\ m.rid \notin DOMAIN pending

\* C28: a reply whose _requestId is not in the pending table is discarded:
\* no future is resolved or failed, the pending table and the readiness of the
\* bridge stay as they are, and the reader goes on to read the next line.
C28_UnknownReplyDiscarded ==
    [][\A r \in Procs : (ReadsLine(r) /\ CarriesUnknownRid(NextLine(r))) =>
          /\ future' = future /\ pending' = pending /\ is_ready' = is_ready
          /\ rdState'[r] = "waiting"]_vars

\* The worker p is in its loop and its next line is taken in this step.
WorkerTakes(p) == alive[p] /\ wk[p] = "run" /\ stdin[p] # <<>> /\ stdin'[p] # stdin[p]
\* A line that is no request: no JSON, JSON that is no object, or no text.
Malformed(line) == line.kind \in {"garbage", "nonobj", "undecodable"}
\* A request whose command main has no branch for.
UnknownCommand(line) ==
    line.kind = "obj"
        /\ line.command \notin {"ping", "start_tracking", "process_frame", "stop_tracking", "cleanup"}

\* C29: for a malformed line or an unknown command the worker writes one
\* failure reply (command parse_error for a malformed line; the failure that
\* names the command for an unknown one), leaves the session as it is and
\* goes on with the next line.
C29_ProtocolFaultsAnswered ==
    [][\A p \in Procs :
          LET line == Head(stdin[p])
              reply == stdout'[p][Len(stdout'[p])]
          IN  (WorkerTakes(p) /\ (Malformed(line) \/ UnknownCommand(line))) =>
                 /\ alive'[p] /\ wk'[p] = "run" /\ stdin'[p] = Tail(stdin[p])
                 /\ Len(stdout'[p]) = Len(stdout[p]) + 1
                 /\ ~reply.success
                 /\ reply.command = (IF Malformed(line) THEN "parse_error" ELSE line.command)
                 /\ tracker' = tracker]_vars

\* C30: no line read from the worker's output ends the reader loop, and a
\* line that is no message is skipped: no future is resolved or failed, the
\* pending table and the readiness stay as they are.
C30_NoLineEndsTheReader ==
    [][\A r \in Procs : ReadsLine(r) =>
          /\ rdState'[r] = "waiting"
          /\ NextLine(r) \in NoiseLines =>
                 future' = future /\ pending' = pending /\ is_ready' = is_ready]_vars

\* ---- properties of the tracking engine (SpecTracker) -----------------------------------

\* A step of the engine that is a process_frame call.
FrameStep == tk_io'.call = "process_frame"

\* C15: process_frame on a session that is not tracking (never started, or
\* stopped) returns a failure with the not-tracking error and leaves every
\* session field as it was.
C15_NotTrackingRejected ==
    [][(FrameStep /\ ~tracker.is_tracking)
        => /\ tk_io'.res.kind = "return"
           /\ ~tk_io'.res.success
           /\ tk_io'.res.error = "Not tracking"
           /\ tracker' = tracker]_vars

\* C15 witness: a frame was refused by a session that was stopped after it
\* had been tracking (the last call before it was not a start).
C15_Witness ==
    /\ tk_io.call = "process_frame"
    /\ tk_io.res.error = "Not tracking"
    /\ ~tracker.is_tracking
    /\ tracker.frame_width > 0

\* A session whose start returned: tracking, with a center on record and a
\* primary estimator that was initialised.
Started(s) ==
    s.is_tracking /\ s.last_valid_center # NoPoint /\ s.csrt_tracker # Uninit

\* C16: in a tracking session, process_frame with a decodable frame always
\* returns success and leaves the session tracking, whatever the two
\* estimators report.
C16_DecodableFrameSucceeds ==
    [][(FrameStep /\ Started(tracker) /\ tk_io'.decodable)
        => /\ tk_io'.res.kind = "return"
           /\ tk_io'.res.success
           /\ tracker'.is_tracking]_vars

\* The fusion table of lines 250-303 read off a call record: the method and
\* the confidence of the reply for each pair of estimator outcomes.
FusionTable(io) ==
    /\ (io.csrt_ok /\ io.lk_center # NoPoint)
        => (io.res.method = "csrt_lk_fused" /\ io.res.confidence = ConfFused)
    /\ (io.csrt_ok /\ io.lk_center = NoPoint)
        => (io.res.method = "csrt" /\ io.res.confidence = ConfCsrt)
    /\ (~io.csrt_ok /\ io.lk_center # NoPoint)
        => (io.res.method = "lk_fallback" /\ io.res.confidence = ConfLk)
    /\ (~io.csrt_ok /\ io.lk_center = NoPoint)
        => io.res.method = "fallback_last_valid"

\* C17: on every frame processed in a tracking session the reply carries the
\* method and the confidence of the one fusion branch that the estimator
\* outcomes select: both succeed -> fused, 0.95; primary only -> primary, 0.9;
\* secondary only -> secondary fallback, 0.6; neither -> stale fallback.
C17_FusionTableOnEveryFrame ==
    [][(FrameStep /\ Started(tracker) /\ tk_io'.decodable) => FusionTable(tk_io')]_vars

\* The reply of a frame on which both estimators failed.
StaleReply(io) == io.call = "process_frame" /\ io.res.method = "fallback_last_valid"

\* C18: over a run of consecutive processed frames on which both estimators
\* fail, the reported confidence never increases from one frame to the next
\* and is never below 0.1.
C18_StaleConfidenceDecays ==
    [][StaleReply(tk_io')
        => /\ tk_io'.res.confidence >= ConfFloor
           /\ StaleReply(tk_io) => tk_io'.res.confidence <= tk_io.res.confidence]_vars

\* C18 witness: a run of failing frames long enough for the floor to hold the
\* confidence up.
C18_Witness ==
    /\ StaleReply(tk_io)
    /\ tk_io.res.confidence = ConfFloor
    /\ ConfBase - tracker.out_of_bounds_count * ConfStep < ConfFloor

\* C19 as stated: on a frame where both estimators fail the reported
\* confidence is max(0.1, 0.5 - 0.05*c) with c the failure counter as it
\* stands before this frame increments it, so the first failing frame
\* reports 0.5.
C19_ConfidenceFromCountBefore ==
    [][StaleReply(tk_io')
        => tk_io'.res.confidence = fallback_confidence(tracker.out_of_bounds_count)]_vars

\* C19 amended: the confidence is max(0.1, 0.5 - 0.05*c) with c the failure
\* counter after this frame has incremented it, so the first failing frame
\* reports 0.45.
C19_ConfidenceFromCountAfter ==
    [][StaleReply(tk_io')
        => /\ tracker'.out_of_bounds_count = tracker.out_of_bounds_count + 1
           /\ tk_io'.res.confidence = fallback_confidence(tracker'.out_of_bounds_count)]_vars

\* C19 witness: the first failing frame of a session, answered with 0.45.
C19_Witness ==
    /\ StaleReply(tk_io)
    /\ tracker.out_of_bounds_count = 1
    /\ tk_io.res.confidence = ConfBase - ConfStep

\* A frame on which process_frame got as far as the fusion of the two
\* estimator reports: the session is tracking, the frame decodes and the
\* primary estimator's update returns.
Evaluated(s, io) ==
    /\ io.call = "process_frame" /\ s.is_tracking /\ io.decodable
    /\ io.res.error # "cv2.error in update"

\* C20: the failure counter equals the number of immediately preceding
\* consecutive frames on which both estimators failed: it is 0 after a start
\* and after a frame on which either estimator succeeded, it grows by exactly
\* 1 on each frame on which both fail, and no frame that is refused before
\* the estimators run changes it.
C20_FailureCountCountsFailures ==
    [][/\ (tk_io'.call = "start_tracking" /\ tk_io'.decodable)
           => tracker'.out_of_bounds_count = 0
       /\ (Evaluated(tracker, tk_io') /\ (tk_io'.csrt_ok \/ tk_io'.lk_center # NoPoint))
           => tracker'.out_of_bounds_count = 0
       /\ (Evaluated(tracker, tk_io') /\ ~tk_io'.csrt_ok /\ tk_io'.lk_center = NoPoint)
           => tracker'.out_of_bounds_count = tracker.out_of_bounds_count + 1
       /\ (FrameStep /\ ~Evaluated(tracker, tk_io'))
           => tracker'.out_of_bounds_count = tracker.out_of_bounds_count]_vars

\* C20 witness: three frames processed since the start, both estimators
\* failed on each, and the counter stands at 3.
C20_Witness ==
    /\ StaleReply(tk_io)
    /\ tracker.frame_count = 3
    /\ tracker.out_of_bounds_count = 3

\* ---- properties of a long session (SpecRun) ------------------------------------------

\* A process_frame call that is answered with success.
FrameSucceeds == FrameStep /\ tk_io'.res.kind = "return" /\ tk_io'.res.success

\* C21: the frame counter grows by one on each successful process_frame call
\* and on no other, and the periodic re-seed of the flow points happens
\* exactly in the successful calls that find the counter at a positive
\* multiple of 30, whatever the fusion branch.
C21_ReseedAtEveryThirtieth ==
    [][FrameStep =>
          /\ tracker'.frame_count = tracker.frame_count + (IF FrameSucceeds THEN 1 ELSE 0)
          /\ tk_io'.reseed <=> /\ FrameSucceeds
                               /\ tracker.frame_count > 0
                               /\ tracker.frame_count % 30 = 0]_vars

\* A start_tracking call that is answered with success.
StartSucceeds ==
    tk_io'.call = "start_tracking" /\ tk_io'.res.kind = "return" /\ tk_io'.res.success

\* The number of valid flow points.
PointCount(s) == Cardinality(s.good_points_indices)

\* A successful process_frame call that re-seeds the flow points: the periodic
\* refresh (line 312) or the re-initialisation of the both-failed branch
\* (line 308).
Reseeds ==
    /\ FrameSucceeds
    /\ \/ tk_io'.reseed
       \/ tk_io'.res.method = "fallback_last_valid" /\ tracker.last_valid_center # NoPoint

\* C25: the number of valid flow points is always between 0 and 15, and
\* right after a successful start or a re-seed it is at least 1.
C25_PointCountWithinBounds ==
    [][/\ PointCount(tracker') \in 0..max_points
       /\ Len(tracker'.tracking_points) <= max_points
       /\ (StartSucceeds \/ Reseeds) => PointCount(tracker') >= 1]_vars

\* C25 witness: a periodic re-seed in a region with more corners than are
\* asked for has left exactly 15 valid points.
C25_Witness ==
    /\ tk_io.call = "process_frame" /\ tk_io.reseed
    /\ PointCount(tracker) = max_points

\* ---- further properties of the tracking engine (SpecTracker) -------------------------

\* C22: after every successful start, lastValidCenter equals the supplied
\* tracking point, whatever state the session was in before the call.
C22_StartSetsCenter ==
    [][StartSucceeds => tracker'.last_valid_center = tk_io'.point]_vars

\* C22 witness: a start with the point (150, 50) has succeeded and that point
\* is the center of the session.
C22_Witness ==
    /\ tk_io.call = "start_tracking" /\ tk_io.res.success
    /\ tracker.last_valid_center = tk_io.point
    /\ tk_io.point = Pt(150, 50)

\* A step of the engine that is a stop_tracking or a cleanup call.
StopStep == tk_io'.call \in {"stop_tracking", "cleanup"}

\* The session holds nothing of a tracking session: lines 322-329.
Discarded(s) ==
    /\ ~s.is_tracking
    /\ s.csrt_tracker = NoTracker
    /\ s.tracking_points = <<>> /\ s.good_points_indices = {}
    /\ s.prev_gray = NoFrame
    /\ s.last_valid_center = NoPoint
    /\ s.out_of_bounds_count = 0 /\ s.frame_count = 0

\* C23: stop and cleanup always succeed and leave the session idle with the
\* appearance model, the flow points, the previous frame, lastValidCenter and
\* both counters discarded; on an idle session they change nothing, and a
\* second one applied to the state the first has left yields that state.
C23_StopDiscardsAndIsIdempotent ==
    [][StopStep =>
          /\ tk_io'.res.kind = "return" /\ tk_io'.res.success
          /\ Discarded(tracker')
          /\ ~tracker.is_tracking => tracker' = tracker
          /\ stop_tracking(tracker').s = tracker'
          /\ tracker_cleanup(tracker').s = tracker']_vars

\* C23 witness: a cleanup has left idle a session that had been started and
\* had processed frames or not.
C23_Witness ==
    /\ tk_io.call = "cleanup" /\ tk_io.res.success
    /\ Discarded(tracker)
    /\ tracker.frame_width > 0

\* C26: frame dimensions are fixed for the life of a session: after every
\* successful start_tracking or process_frame call the stored previous frame
\* has the width and height given at start, and no process_frame call changes
\* the session's dimensions.
C26_DimensionsFixed ==
    [][/\ (StartSucceeds \/ FrameSucceeds) =>
            tracker'.prev_gray = Frame(tracker'.frame_width, tracker'.frame_height)
       /\ FrameStep => /\ tracker'.frame_width = tracker.frame_width
                       /\ tracker'.frame_height = tracker.frame_height]_vars

\* ---- properties of a series of short sessions (SpecSessions) ------------------------

\* C24: a successful start leaves a session that depends only on its
\* arguments: issued in the current state, whatever it is, it yields the same
\* session and the same reply as issued after a stop, and as issued on a new
\* engine.
C24_StartDependsOnArgumentsOnly ==
    \A frame \in Frames, point \in StartPoints, template_size \in SessionTemplateSizes,
       corners \in CornerSeqs :
        LET here == start_tracking(tracker, TRUE, frame, point, template_size,
                                   corners, cv2_rejects)
            stopped == start_tracking(stop_tracking(tracker).s, TRUE, frame, point,
                                      template_size, corners, cv2_rejects)
            new == start_tracking(NewTracker, TRUE, frame, point, template_size,
                                  corners, cv2_rejects)
        IN  here.res.kind = "return" => (here = stopped /\ here = new)

\* C24 witness: a session started with the larger template size on the narrow
\* frame is tracking, has processed frames, has counted a failure and has
\* moved its center: every field differs from a new engine's, and a start
\* with the default size on the wide frame succeeds from it.
C24_Witness ==
    /\ tracker.is_tracking
    /\ tracker.template_size # DefaultTemplateSize
    /\ tracker.prev_gray = Frame(60, 100)
    /\ tracker.frame_count = MaxShort /\ tracker.out_of_bounds_count > 0
    /\ tracker.last_valid_center \notin StartPoints
    /\ tracker.tracking_points # <<>>
    /\ start_tracking(tracker, TRUE, Frame(200, 100), Pt(150, 50), DefaultTemplateSize,
                       <<>>, cv2_rejects).res.success

\* ---- properties of a failed start and of the fused center (SpecTracker) ---------------

\* A start_tracking call that is answered with a failure.
StartFails ==
    tk_io'.call = "start_tracking" /\ ~(tk_io'.res.kind = "return" /\ tk_io'.res.success)

\* C31: a start_tracking call that is answered with a failure leaves every
\* field of the session as it was before the call.
C31_FailedStartChangesNothing ==
    [][StartFails => tracker' = tracker]_vars

\* An estimator produced a center in the call recorded in io.
EitherSucceeded(io) == io.csrt_ok \/ io.lk_center # NoPoint

\* C32: on a frame where either estimator succeeded last_valid_center becomes
\* the center reported for the frame; on a frame where both failed it is left
\* unchanged and is the center reported.
C32_LastValidCenterFollowsReply ==
    [][FrameSucceeds =>
          IF EitherSucceeded(tk_io')
          THEN tracker'.last_valid_center = tk_io'.res.point
          ELSE /\ tracker'.last_valid_center = tracker.last_valid_center
               /\ tk_io'.res.point = tracker.last_valid_center]_vars

\* C33: the center reported for a frame is, per axis, 0.7 of the primary
\* center plus 0.3 of the secondary center when both estimators succeed, the
\* primary center when only the primary succeeds, and the secondary center
\* when only the secondary succeeds.
C33_ReportedCenterPerBranch ==
    [][(FrameSucceeds /\ EitherSucceeded(tk_io')) =>
          LET io == tk_io'
              c == io.csrt_center
              l == io.lk_center
          IN  IF io.csrt_ok /\ l # NoPoint
              THEN /\ 10 * io.res.point.x = 7 * c.x + 3 * l.x
                   /\ 10 * io.res.point.y = 7 * c.y + 3 * l.y
              ELSE IF io.csrt_ok THEN io.res.point = c
              ELSE io.res.point = l]_vars

\* C33 witness: a frame on which both estimators succeeded with different
\* centers has been answered.
C33_Witness ==
    /\ tk_io.call = "process_frame" /\ tk_io.res.kind = "return" /\ tk_io.res.success
    /\ tk_io.csrt_ok /\ tk_io.lk_center # NoPoint
    /\ tk_io.csrt_center # tk_io.lk_center
    /\ tk_io.res.point \notin {tk_io.csrt_center, tk_io.lk_center}

\* The flow points of s are fresh from _init_lk_points around c: corners
\* found in the region, or the synthetic point at c, all of them valid.
FreshPointsAt(s, c) ==
    /\ s.good_points_indices = 1..Len(s.tracking_points)
    /\ \/ s.tracking_points = <<c>>
       \/ s.tracking_points \in CornerSeqs \ {<<>>}

\* C36: after a secondary-fallback frame the primary estimator has been
\* re-initialized at the center reported for the frame; after a stale-fallback
\* frame both estimators have been re-initialized at last_valid_center; on
\* primary and fused frames the fusion step re-initializes neither.
C36_ReinitPerBranch ==
    [][FrameSucceeds =>
          LET method == tk_io'.res.method
          IN  /\ method = "lk_fallback" =>
                     tracker'.csrt_tracker = Csrt(tk_io'.res.point)
              /\ method = "fallback_last_valid" =>
                     /\ tracker'.csrt_tracker = Csrt(tracker.last_valid_center)
                     /\ FreshPointsAt(tracker', tracker.last_valid_center)
              /\ method \in {"csrt", "csrt_lk_fused"} =>
                     /\ tracker'.csrt_tracker = tracker.csrt_tracker
                     /\ ~tk_io'.reseed =>
                            /\ Len(tracker'.tracking_points) = Len(tracker.tracking_points)
                            /\ tracker'.good_points_indices \subseteq
                                   tracker.good_points_indices]_vars

\* ---- properties of the flow step (SpecFlow) -------------------------------------------

\* The coordinates of the valid flow points of s, in index order.
ValidPoints(s) ==
    LET idxs == SelectSeq([i \in 1..Len(s.tracking_points) |-> i],
                          LAMBDA i : i \in s.good_points_indices)
    IN  [k \in 1..Len(idxs) |-> s.tracking_points[idxs[k]]]

\* Twice the median of the numbers of q: the middle one counted twice, or the
\* sum of the two middle ones when their number is even.
TwiceMedian(q) == Sorted(q)[(Len(q) + 1) \div 2] + Sorted(q)[(Len(q) \div 2) + 1]

\* C34: whenever the secondary estimator yields a center, at least min_points
\* flow points survived the flow step and the center is, per axis, the median
\* of the survivors' coordinates, for odd and for even numbers of survivors.
C34_FlowCenterIsMedian ==
    [][(FrameStep /\ tk_io'.lk_center # NoPoint) =>
          LET pts == ValidPoints(tracker')
          IN  /\ Len(pts) >= min_points
              /\ 2 * tk_io'.lk_center.x = TwiceMedian([k \in 1..Len(pts) |-> pts[k].x])
              /\ 2 * tk_io'.lk_center.y = TwiceMedian([k \in 1..Len(pts) |-> pts[k].y])]_vars

\* The indices that optical flow reports as found (status 1) at a position
\* inside the frame.
Passed(lk, frame) ==
    {i \in DOMAIN lk : /\ lk[i].st = 1
                       /\ 0 <= lk[i].p.x /\ lk[i].p.x < 10 * frame.w
                       /\ 0 <= lk[i].p.y /\ lk[i].p.y < 10 * frame.h}

\* The call re-seeded the flow points: the periodic refresh, or the
\* re-initialisation of the both-failed branch.
ReseededIn(s, out) ==
    \/ out.reseed
    \/ out.res.method = "fallback_last_valid" /\ s.last_valid_center # NoPoint

\* C35: after a frame on which the optical-flow step ran and no re-seed
\* happened, the valid flow points are exactly the points that passed the
\* flow step and stayed inside the frame, and none has been added.
C35_ValidSetIsThePassedSet ==
    LET frame == Frame(tracker.frame_width, tracker.frame_height)
    IN  (tracker.is_tracking /\ lk_runs(tracker, frame)) =>
            \A csrt \in CsrtReports(tracker, frame), lk \in FlowReports(tracker, frame) :
                LET out == process_frame(tracker, TRUE, frame, csrt, lk, <<>>, cv2_rejects)
                IN  (out.res.kind = "return" /\ out.res.success /\ ~ReseededIn(tracker, out)) =>
                        /\ out.s.good_points_indices = Passed(lk, frame)
                        /\ out.s.good_points_indices \subseteq tracker.good_points_indices

\* ---- properties of the order of the worker's replies (SpecWorker)

\* The request identifiers carried by the messages of q, in order.
RidsOf(q) ==
    LET withRid == SelectSeq(q, LAMBDA m : m.rid # NoRid)
    IN  [k \in 1..Len(withRid) |-> withRid[k].rid]

\* C37: the worker answers in the order it reads: when it takes a line, the
\* reply is on its output before the next line is taken, so the identifiers
\* on the replies so far are the identifiers on the lines read so far, in
\* the same order.
C37_RepliesInRequestOrder ==
    [][\A p \in Procs : WorkerTakes(p) =>
          LET line == Head(stdin[p])
          IN  RidsOf(stdout'[p]) = RidsOf(stdout[p]) \o RidsOf(<<line>>)]_vars

\* ---- properties of the calls a cleanup meets (Spec)

\* C38: a send call that is waiting and is failed, by cleanup or by the
\* reader's finally block, whichever comes first, gets the error of a worker
\* exit, "Tracker process ended".
C38_OneErrorForEndedWorker ==
    [][\A t \in Tasks :
          (op[t] = "send" /\ Waiting(Cur, t) /\ future'[t].st = "exception") =>
          future'[t].err = "Tracker process ended"]_vars

\* Task t is inside send_command with the request identifier k.
InSendWith(t, k) == pc[t] \in {"send_drain", "send_wait", "send_timedout"} /\ rid[t] = k

\* C39: every request identifier in the pending table belongs to a send call
\* that has neither returned nor raised: once a call has ended, by a reply, a
\* timeout, the worker's exit, a cleanup or a failed write, its identifier is
\* out of the table.
C39_NoEntryWithoutCaller ==
    \A k \in DOMAIN pending : k # StartupKey => InSendWith(pending[k], k)

\* ---- properties of the startup slot (SpecStartup)

\* C40: the startup slot is registered before the reader can dispatch the
\* worker's startup message: when the reader of the bridge's process reads a
\* startup or startup_error line while the initialize call that launched the
\* process is in its startup wait, the slot is in the table, belongs to that
\* call and is resolved with the message.
C40_StartupMessageResolvesSlot ==
    [][\A r \in Procs, t \in Tasks :
          (/\ ReadsLine(r) /\ NextLine(r).command \in {"startup", "startup_error"}
           /\ process = rdOn[r]
           /\ op[t] = "initialize" /\ pc[t] \in {"st_register", "st_wait"}) =>
              /\ StartupKey \in DOMAIN pending
              /\ pending[StartupKey] = t
              /\ future'[t] = Fut("result", NextLine(r), "")]_vars

====
